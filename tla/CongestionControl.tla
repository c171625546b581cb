------------------------- MODULE CongestionControl -------------------------
(***************************************************************************)
(* The loop of cloud_app.py that slows a congested producer down and lets  *)
(* it return to its own interval, together with the interval each producer *)
(* runs.  A pass works on a snapshot of the registry and of the flags of   *)
(* the delay monitor and awaits a GET and a PUT of /actuators/sampling of  *)
(* one node after the other.  Batteries, which the pass skips, are not     *)
(* among Nodes.                                                            *)
(***************************************************************************)
EXTENDS Integers

CONSTANTS Nodes,
          DefaultInterval,    \* MQTT_PUBLISH_INTERVAL_MS of each node
          StressedInterval,   \* MQTT_PUBLISH_INTERVAL_STRESSED_MS, the longest a node runs
          CongestedInterval,  \* CONGESTED_PUBLISH_INTERVAL_MS
          Faults,             \* the kinds of fault that may happen
          MaxFaults           \* bound: faults in a behaviour

FaultKinds == {"request", "response", "removal", "reboot", "restart"}

ASSUME CongestionAssumption ==
    /\ StressedInterval \in Nat \ {0}
    /\ DefaultInterval \in [Nodes -> 1..StressedInterval]
    /\ CongestedInterval \in 1..60000   \* what a node accepts
    /\ Faults \subseteq FaultKinds /\ MaxFaults \in Nat

VARIABLES interval,     \* current_publish_interval_ms of each node
          booting,      \* nodes that have booted and not yet registered
          registered,   \* the registry
          estimate,     \* _delay_state: none below 3 samples, normal or congested
          pc,           \* the loop: sleep or pass
          todo,         \* nodes of the snapshot not dealt with yet
          view,         \* the snapshot of estimate
          baseline,     \* _sensor_baseline_interval_ms
          commanded,    \* _sampling_interval_state
          current, ask, stage,  \* the awaited exchange: its node, none, get or put, and
                                \* request, response or failed
          learned,      \* what the GET was answered
          spent,        \* how much of MaxFaults is used
          suffered      \* history: the kinds of fault there have been

exchange == <<current, ask, stage, learned>>
memory   == <<baseline, commanded>>
faults   == <<spent, suffered>>
cvars    == <<interval, booting, registered, estimate, pc, todo, view, memory, exchange, faults>>

Unset == 0

Fault(kind) ==
    /\ kind \in Faults /\ spent < MaxFaults
    /\ spent' = spent + 1 /\ suffered' = suffered \cup {kind}

\* set_publish_interval_ms of a node.
Applied(ms) == IF ms > StressedInterval THEN StressedInterval ELSE ms

Init ==
    /\ interval = DefaultInterval /\ booting = Nodes
    /\ registered = {} /\ estimate = [n \in Nodes |-> "none"]
    /\ pc = "sleep" /\ todo = {} /\ view = estimate
    /\ baseline = [n \in Nodes |-> Unset] /\ commanded = [n \in Nodes |-> Unset]
    /\ current \in Nodes /\ ask = "none" /\ stage = "request" /\ learned = Unset
    /\ spent = 0 /\ suffered = {}
-----------------------------------------------------------------------------
(* ---- _monitor_network_congestion ---- *)

\* What a node of a given baseline should run by the snapshot.
Target(n, base) == IF view[n] = "congested" THEN CongestedInterval ELSE base

\* A slip: a node is commanded once only.
SettledOnce(n, base) == view[n] = "none" \/ commanded[n] # Unset

Settled(n, base) == view[n] = "none" \/ commanded[n] = Target(n, base)

\* A slip: the baselines are read again in every pass.
StartPassRelearns ==
    /\ pc = "sleep" /\ pc' = "pass"
    /\ todo' = registered /\ view' = estimate
    /\ commanded' = [n \in Nodes |-> IF n \in registered THEN commanded[n] ELSE Unset]
    /\ baseline' = [n \in Nodes |-> Unset]
    /\ UNCHANGED <<interval, booting, registered, estimate, exchange, faults>>

StartPass ==
    /\ pc = "sleep" /\ pc' = "pass"
    /\ todo' = registered /\ view' = estimate
    /\ commanded' = [n \in Nodes |-> IF n \in registered THEN commanded[n] ELSE Unset]
    /\ UNCHANGED <<interval, booting, registered, estimate, baseline, exchange, faults>>

\* On to the next node, or one more request to this one.
Done(n)       == ask' = "none" /\ todo' = todo \ {n} /\ UNCHANGED <<current, stage>>
Send(kind, n) == ask' = kind /\ current' = n /\ stage' = "request" /\ UNCHANGED todo

\* From here to its next await the loop runs alone.
Steer(n, base) == IF Settled(n, base) THEN Done(n) ELSE Send("put", n)

\* A slip: a node is steered whether its baseline is known or not.
VisitUnlearned(n) ==
    /\ pc = "pass" /\ ask = "none" /\ n \in todo
    /\ Steer(n, baseline[n])
    /\ UNCHANGED <<interval, booting, registered, estimate, pc, view, memory, learned, faults>>

Visit(n) ==
    /\ pc = "pass" /\ ask = "none" /\ n \in todo
    /\ IF baseline[n] = Unset THEN Send("get", n) ELSE Steer(n, baseline[n])
    /\ UNCHANGED <<interval, booting, registered, estimate, pc, view, memory, learned, faults>>

\* A slip: one baseline for all nodes.
LearnBaselineShared(n) ==
    /\ ask = "get" /\ stage = "response" /\ current = n
    /\ baseline' = [m \in Nodes |-> learned]
    /\ Steer(n, learned)
    /\ UNCHANGED <<interval, booting, registered, estimate, pc, view, commanded, learned, faults>>

LearnBaseline(n) ==
    /\ ask = "get" /\ stage = "response" /\ current = n
    /\ baseline' = [baseline EXCEPT ![n] = learned]
    /\ Steer(n, learned)
    /\ UNCHANGED <<interval, booting, registered, estimate, pc, view, commanded, learned, faults>>

\* Logged, and the pass continues.
BaselineFailed ==
    /\ ask = "get" /\ stage = "failed"
    /\ Done(current)
    /\ UNCHANGED <<interval, booting, registered, estimate, pc, view, memory, learned, faults>>

CommandDone(n) ==
    /\ ask = "put" /\ stage = "response" /\ current = n
    /\ commanded' = [commanded EXCEPT ![n] = Target(n, baseline[n])]
    /\ Done(n)
    /\ UNCHANGED <<interval, booting, registered, estimate, pc, view, baseline, learned, faults>>

\* A slip: the command is recorded whatever became of it.
CommandFailedRecorded(n) ==
    /\ ask = "put" /\ stage = "failed" /\ current = n
    /\ commanded' = [commanded EXCEPT ![n] = Target(n, baseline[n])]
    /\ ask' = "none" /\ todo' = {}
    /\ UNCHANGED <<interval, booting, registered, estimate, pc, view, baseline, current, stage,
                   learned, faults>>

\* The exception leaves the loop over the nodes: the rest wait for the
\* next pass.
CommandFailed(n) ==
    /\ ask = "put" /\ stage = "failed" /\ current = n
    /\ ask' = "none" /\ todo' = {}
    /\ UNCHANGED <<interval, booting, registered, estimate, pc, view, memory, current, stage,
                   learned, faults>>

EndPass ==
    /\ pc = "pass" /\ ask = "none" /\ todo = {} /\ pc' = "sleep"
    /\ UNCHANGED <<interval, booting, registered, estimate, todo, view, memory, exchange, faults>>

(* ---- the nodes ---- *)

NodeAnswers ==
    /\ ask # "none" /\ stage = "request" /\ stage' = "response"
    /\ IF ask = "get"
       THEN learned' = interval[current] /\ UNCHANGED interval
       ELSE /\ interval' = [interval EXCEPT ![current] =
                                Applied(Target(current, baseline[current]))]
            /\ UNCHANGED learned
    /\ UNCHANGED <<booting, registered, estimate, pc, todo, view, memory, current, ask, faults>>

\* 4.04 before the resources are active raises in the client.
NodeNotReady ==
    /\ ask # "none" /\ stage = "request" /\ current \in booting
    /\ stage' = "failed"
    /\ UNCHANGED <<interval, booting, registered, estimate, pc, todo, view, memory, current, ask,
                   learned, faults>>

Register(n) ==
    /\ n \in booting
    /\ booting' = booting \ {n} /\ registered' = registered \cup {n}
    /\ UNCHANGED <<interval, estimate, pc, todo, view, memory, exchange, faults>>

\* DelayMonitor has judged another message.
EstimateChanges(n) ==
    /\ \E e \in {"normal", "congested"} : estimate' = [estimate EXCEPT ![n] = e]
    /\ UNCHANGED <<interval, booting, registered, pc, todo, view, memory, exchange, faults>>

(* ---- faults ---- *)

Lose ==
    /\ ask # "none"
    /\ \/ stage = "request" /\ Fault("request")
       \/ stage = "response" /\ Fault("response")
    /\ stage' = "failed"
    /\ UNCHANGED <<interval, booting, registered, estimate, pc, todo, view, memory, current, ask,
                   learned>>

Remove(n) ==
    /\ Fault("removal")
    /\ n \in registered /\ registered' = registered \ {n}
    /\ UNCHANGED <<interval, booting, estimate, pc, todo, view, memory, exchange>>

Reboot(n) ==
    /\ Fault("reboot")
    /\ interval' = [interval EXCEPT ![n] = DefaultInterval[n]]
    /\ booting' = booting \cup {n}
    /\ UNCHANGED <<registered, estimate, pc, todo, view, memory, exchange>>

CloudRestarts ==
    /\ Fault("restart")
    /\ registered' = {} /\ estimate' = [n \in Nodes |-> "none"]
    /\ pc' = "sleep" /\ todo' = {} /\ view' = estimate'
    /\ baseline' = [n \in Nodes |-> Unset] /\ commanded' = [n \in Nodes |-> Unset]
    /\ ask' = "none" /\ stage' = "request" /\ learned' = Unset
    /\ UNCHANGED <<interval, booting, current>>
-----------------------------------------------------------------------------
CloudStep ==
    \/ StartPass \/ EndPass \/ BaselineFailed
    \/ \E n \in Nodes : Visit(n) \/ LearnBaseline(n) \/ CommandDone(n) \/ CommandFailed(n)

Next ==
    \/ CloudStep
    \/ NodeAnswers \/ NodeNotReady
    \/ \E n \in Nodes : Register(n) \/ EstimateChanges(n) \/ Remove(n) \/ Reboot(n)
    \/ Lose \/ CloudRestarts

\* The loop runs on, nodes that are there answer and register.
Fairness ==
    /\ WF_cvars(CloudStep) /\ WF_cvars(NodeAnswers)
    /\ \A n \in Nodes : WF_cvars(Register(n))

Spec == Init /\ [][Next]_cvars /\ Fairness
-----------------------------------------------------------------------------
Intervals == {Unset, CongestedInterval, Applied(CongestedInterval)}
                 \cup {DefaultInterval[n] : n \in Nodes}

TypeOK ==
    /\ interval \in [Nodes -> 1..StressedInterval]
    /\ booting \subseteq Nodes /\ registered \subseteq Nodes
    /\ estimate \in [Nodes -> {"none", "normal", "congested"}]
    /\ pc \in {"sleep", "pass"} /\ todo \subseteq Nodes
    /\ view \in [Nodes -> {"none", "normal", "congested"}]
    /\ baseline \in [Nodes -> 0..StressedInterval]
    /\ commanded \in [Nodes -> Intervals]
    /\ current \in Nodes /\ ask \in {"none", "get", "put"}
    /\ stage \in {"request", "response", "failed"}
    /\ learned \in 0..StressedInterval
    /\ spent \in 0..MaxFaults /\ suffered \subseteq Faults

(* A producer only ever runs its own interval or the congested one, never  *)
(* that of another node, whatever is lost, removed or restarted.           *)
OwnOrCongested ==
    \A n \in Nodes : interval[n] \in {DefaultInterval[n], Applied(CongestedInterval)}

\* What the cloud remembers of a node may be wrong after these faults: the
\* node did what it was told and the cloud does not know, or it forgot.
Estranged == suffered \cap {"response", "reboot"} # {}

(* Unless so estranged, what the cloud remembers having commanded is what  *)
(* the node runs, whenever the loop sleeps: every later pass relies on it  *)
(* to do nothing (cloud_app.py:149).                                       *)
CommandedInEffect ==
    ~Estranged /\ pc = "sleep" =>
        \A n \in Nodes : commanded[n] # Unset => interval[n] = Applied(commanded[n])

(* The interval the cloud takes for a node's own is its own, and never one *)
(* the cloud has set itself, as long as the cloud itself does not restart. *)
BaselineIsOwn ==
    "restart" \notin suffered => \A n \in Nodes : baseline[n] \in {Unset, DefaultInterval[n]}

(* A registered node that stays congested is slowed down, unless the cloud *)
(* is estranged from it, whatever becomes of the requests to other nodes.  *)
SlowsDown ==
    \A n \in Nodes :
        (n \in registered /\ estimate[n] = "congested")
            ~> (interval[n] = Applied(CongestedInterval)
                  \/ n \notin registered \/ estimate[n] # "congested" \/ Estranged)

(* README.md:199 "restores the learned baseline once delay recovers": a    *)
(* registered node that stays normal gets its own interval back, unless    *)
(* the cloud is estranged from it or has learned a wrong baseline.         *)
Restored ==
    \A n \in Nodes :
        (n \in registered /\ estimate[n] = "normal")
            ~> (interval[n] = DefaultInterval[n]
                  \/ n \notin registered \/ estimate[n] # "normal"
                  \/ Estranged \/ "restart" \in suffered)

(* README.md:198-199 "commands the node ... to fall back to a 5000 ms      *)
(* interval": the first of these with no reservation.                      *)
AlwaysSlowedDown ==
    \A n \in Nodes :
        (n \in registered /\ estimate[n] = "congested")
            ~> (interval[n] = Applied(CongestedInterval)
                  \/ n \notin registered \/ estimate[n] # "congested")
=============================================================================
