---------------------------- MODULE NodeRegistry ----------------------------
(***************************************************************************)
(* Who the cloud believes to be there: the registry (node_registry.py), a  *)
(* POST to /register after each boot, and the heartbeat of cloud_app.py,   *)
(* which walks a snapshot of the registry, awaits one probe after another  *)
(* and removes a node whose probe fails.  Handlers run while it awaits.    *)
(***************************************************************************)
EXTENDS Integers

CONSTANTS Nodes,
          Faults,     \* the kinds of fault that may happen
          MaxFaults   \* bound: faults in a behaviour

FaultKinds == {"crash", "probe", "post", "unregister", "restart"}

ASSUME RegistryAssumption == Faults \subseteq FaultKinds /\ MaxFaults \in Nat

VARIABLES status,      \* of each node: down, booting or up
          posts,       \* nodes whose POST to /register is on its way
          registered,  \* _nodes
          pc,          \* the heartbeat: sleep or pass
          todo,        \* nodes of the snapshot not probed yet
          probing,     \* the node whose probe is awaited, if any
          flight,      \* that probe is sent or lost
          tries,       \* how often it was sent
          dead,        \* history: nodes down ever since the pass began
          added,       \* history: nodes registered since the pass began
          faults       \* how much of MaxFaults is used

nodes     == <<status, posts>>
heartbeat == <<pc, todo, probing, flight, tries>>
rvars     == <<nodes, registered, heartbeat, dead, added, faults>>

Fault(kind) == kind \in Faults /\ faults < MaxFaults /\ faults' = faults + 1

Init ==
    /\ status = [n \in Nodes |-> "booting"] /\ posts = {}
    /\ registered = {}
    /\ pc = "sleep" /\ todo = {} /\ probing = {} /\ flight = "sent" /\ tries = 0
    /\ dead = {} /\ added = {}
    /\ faults = 0
-----------------------------------------------------------------------------
(* ---- the nodes ---- *)

Crash(n) ==
    /\ Fault("crash")
    /\ status[n] # "down"
    /\ status' = [status EXCEPT ![n] = "down"]
    /\ UNCHANGED <<posts, registered, heartbeat, dead, added>>

Boot(n) ==
    /\ status[n] = "down"
    /\ status' = [status EXCEPT ![n] = "booting"]
    /\ dead' = dead \ {n}
    /\ UNCHANGED <<posts, registered, heartbeat, added, faults>>

\* The one POST of a boot, once RPL has a route.
Announce(n) ==
    /\ status[n] = "booting"
    /\ status' = [status EXCEPT ![n] = "up"]
    /\ posts' = posts \cup {n}
    /\ UNCHANGED <<registered, heartbeat, dead, added, faults>>

(* ---- /register and /unregister ---- *)

add_node(n) == registered' = registered \cup {n} /\ added' = added \cup {n}

remove_node(n) == registered' = registered \ {n}

Register(n) ==
    /\ n \in posts /\ posts' = posts \ {n}
    /\ add_node(n)
    /\ UNCHANGED <<status, heartbeat, dead, faults>>

PostLost(n) ==
    /\ Fault("post")
    /\ n \in posts /\ posts' = posts \ {n}
    /\ UNCHANGED <<status, registered, heartbeat, dead, added>>

Unregister(n) ==
    /\ Fault("unregister")
    /\ n \in registered /\ remove_node(n)
    /\ UNCHANGED <<nodes, heartbeat, dead, added>>

(* ---- _monitor_sensor_liveness ---- *)

\* A slip: nodes registered during the last pass are left for the next one.
StartPassOldOnly ==
    /\ pc = "sleep" /\ pc' = "pass"
    /\ todo' = registered \ added
    /\ dead' = {n \in Nodes : status[n] = "down"} /\ added' = {}
    /\ UNCHANGED <<nodes, registered, probing, flight, tries, faults>>

StartPass ==
    /\ pc = "sleep" /\ pc' = "pass"
    /\ todo' = registered
    /\ dead' = {n \in Nodes : status[n] = "down"} /\ added' = {}
    /\ UNCHANGED <<nodes, registered, probing, flight, tries, faults>>

Probe(n) ==
    /\ pc = "pass" /\ probing = {} /\ n \in todo
    /\ probing' = {n} /\ todo' = todo \ {n}
    /\ flight' = "sent" /\ tries' = 1
    /\ UNCHANGED <<nodes, registered, pc, dead, added, faults>>

\* A node that does not run, or has no route yet, gets no probe; any other
\* gets it unless the network loses it or its answer.
ProbeLost(n) ==
    /\ probing = {n} /\ flight = "sent" /\ flight' = "lost"
    /\ \/ status[n] # "up" /\ UNCHANGED faults
       \/ Fault("probe")
    /\ UNCHANGED <<nodes, registered, pc, todo, probing, tries, dead, added>>

\* The CoAP stack sends it once more before the 3 s are over.
ProbeRepeated ==
    /\ flight = "lost" /\ probing # {} /\ tries = 1
    /\ flight' = "sent" /\ tries' = 2
    /\ UNCHANGED <<nodes, registered, pc, todo, probing, dead, added, faults>>

EndProbe == probing' = {} /\ flight' = "sent" /\ tries' = 0

ProbeAnswered(n) ==
    /\ probing = {n} /\ flight = "sent" /\ status[n] # "down"
    /\ EndProbe
    /\ UNCHANGED <<nodes, registered, pc, todo, dead, added, faults>>

\* 4.04: a booting node whose resources are not active yet.
ProbeRefused(n) ==
    /\ probing = {n} /\ flight = "sent" /\ status[n] = "booting"
    /\ EndProbe /\ remove_node(n)
    /\ UNCHANGED <<nodes, pc, todo, dead, added, faults>>

\* A slip: the failure is logged only.
ProbeTimesOutLogged(n) ==
    /\ probing = {n} /\ flight = "lost"
    /\ EndProbe
    /\ UNCHANGED <<nodes, registered, pc, todo, dead, added, faults>>

ProbeTimesOut(n) ==
    /\ probing = {n} /\ flight = "lost"
    /\ EndProbe /\ remove_node(n)
    /\ UNCHANGED <<nodes, pc, todo, dead, added, faults>>

EndPass ==
    /\ pc = "pass" /\ probing = {} /\ todo = {} /\ pc' = "sleep"
    /\ UNCHANGED <<nodes, registered, todo, probing, flight, tries, dead, added, faults>>

\* The registry is not stored.
CloudRestarts ==
    /\ Fault("restart")
    /\ registered' = {}
    /\ pc' = "sleep" /\ todo' = {} /\ EndProbe
    /\ dead' = {} /\ added' = {}
    /\ UNCHANGED nodes
-----------------------------------------------------------------------------
HeartbeatStep ==
    \/ StartPass \/ EndPass
    \/ \E n \in Nodes : Probe(n) \/ ProbeTimesOut(n)

NetworkStep ==
    \/ ProbeRepeated
    \/ \E n \in Nodes : ProbeAnswered(n) \/ ProbeRefused(n) \/ ProbeLost(n)

NodeStep(n) == Boot(n) \/ Announce(n) \/ Register(n)

Next ==
    \/ HeartbeatStep \/ NetworkStep
    \/ \E n \in Nodes : NodeStep(n) \/ Crash(n) \/ PostLost(n) \/ Unregister(n)
    \/ CloudRestarts

\* The heartbeat runs on, a probe has one fate or another, a node that runs
\* announces itself and what it sends arrives.  A node may stay down.
Fairness ==
    /\ WF_rvars(HeartbeatStep) /\ WF_rvars(NetworkStep)
    /\ \A n \in Nodes : WF_rvars(Announce(n)) /\ WF_rvars(Register(n))

Spec == Init /\ [][Next]_rvars /\ Fairness
-----------------------------------------------------------------------------
TypeOK ==
    /\ status \in [Nodes -> {"down", "booting", "up"}]
    /\ posts \subseteq Nodes /\ registered \subseteq Nodes
    /\ pc \in {"sleep", "pass"}
    /\ todo \subseteq Nodes
    /\ probing \in {{}} \cup {{n} : n \in Nodes}
    /\ flight \in {"sent", "lost"} /\ tries \in 0..2
    /\ dead \subseteq Nodes /\ added \subseteq Nodes
    /\ faults \in 0..MaxFaults

(* A node that was down during a whole pass is gone when the pass ends     *)
(* (README.md:204 "detected within one heartbeat cycle"), unless a POST    *)
(* that it had sent before arrived in the meantime.                        *)
DeadGoneAfterPass == pc = "sleep" => registered \cap dead \subseteq added

(* Whatever is lost, repeated or restarted, a node that stays down does    *)
(* not stay registered.                                                    *)
DeadIsRemoved ==
    \A n \in Nodes : (n \in registered /\ status[n] = "down")
                        ~> (n \notin registered \/ status[n] # "down")

(* node_registry.py:67 "Refresh last_seen when telemetry arrives. Re-add   *)
(* node if needed.": a producer that is up, and so publishes, does not     *)
(* stay out of the registry.                                               *)
PublisherIsRegistered ==
    \A n \in Nodes : status[n] = "up" ~> (n \in registered \/ status[n] # "up")
=============================================================================
