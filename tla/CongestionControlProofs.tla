---------------------- MODULE CongestionControlProofs ----------------------
(***************************************************************************)
(* The congestion control for every set of producers and every interval.   *)
(* Known holds under all faults; InEffect holds until a response is lost   *)
(* or a node reboots, and LearnedFirst until the cloud restarts.           *)
(***************************************************************************)
EXTENDS CongestionControl, TLAPS

OwnIntervals(n) == {DefaultInterval[n], Applied(CongestedInterval)}

\* The cloud knows of each node nothing but intervals of that node.
Known ==
    /\ interval \in [Nodes -> Nat] /\ baseline \in [Nodes -> Nat]
    /\ \A n \in Nodes : interval[n] \in OwnIntervals(n)
    /\ \A n \in Nodes : baseline[n] \in OwnIntervals(n) \cup {Unset}
    /\ current \in Nodes /\ ask \in {"none", "get", "put"}
    /\ ask = "put" => baseline[current] # Unset
    /\ ask = "get" /\ stage = "response" => learned \in OwnIntervals(current)

\* What has happened is not forgotten.
LEMMA SufferedGrows == [Next]_cvars => suffered \subseteq suffered'
<1> SUFFICES ASSUME [Next]_cvars PROVE suffered \subseteq suffered'
  OBVIOUS
<1>1. CASE CloudStep
  BY <1>1 DEF CloudStep, StartPass, EndPass, BaselineFailed, Visit, LearnBaseline, CommandDone,
              CommandFailed, faults
<1>2. CASE NodeAnswers \/ NodeNotReady
  BY <1>2 DEF NodeAnswers, NodeNotReady, faults
<1>3. ASSUME NEW n \in Nodes, Register(n) \/ EstimateChanges(n) \/ Remove(n) \/ Reboot(n)
      PROVE  suffered \subseteq suffered'
  BY <1>3 DEF Register, EstimateChanges, Remove, Reboot, Fault, faults
<1>4. CASE Lose \/ CloudRestarts
  BY <1>4 DEF Lose, CloudRestarts, Fault
<1>5. CASE UNCHANGED cvars
  BY <1>5 DEF cvars, faults
<1> QED
  BY <1>1, <1>2, <1>3, <1>4, <1>5 DEF Next

LEMMA AppliedOwn ==
    ASSUME NEW n \in Nodes, NEW v \in OwnIntervals(n) \cup {CongestedInterval}
    PROVE  Applied(v) \in OwnIntervals(n)
  BY CongestionAssumption DEF OwnIntervals, Applied

LEMMA OwnIntervalsPositive ==
    ASSUME NEW n \in Nodes
    PROVE  OwnIntervals(n) \subseteq Nat \ {0}
  BY CongestionAssumption DEF OwnIntervals, Applied

LEMMA TargetOwn ==
    ASSUME NEW n \in Nodes, NEW b \in OwnIntervals(n)
    PROVE  Applied(Target(n, b)) \in OwnIntervals(n)
  BY AppliedOwn DEF Target

LEMMA InitKnown == Init => Known
<1> SUFFICES ASSUME Init PROVE Known
  OBVIOUS
<1> QED
  BY CongestionAssumption DEF Init, Known, OwnIntervals, Unset

LEMMA StepKnown == Known /\ [Next]_cvars => Known'
<1> SUFFICES ASSUME Known, [Next]_cvars PROVE Known'
  OBVIOUS
<1>1. CASE StartPass \/ EndPass
  BY <1>1 DEF Known, StartPass, EndPass, exchange, memory, OwnIntervals
<1>2. CASE BaselineFailed
  BY <1>2 DEF Known, BaselineFailed, Done, memory, OwnIntervals
<1>3. ASSUME NEW n \in Nodes, Visit(n) PROVE Known'
  BY <1>3 DEF Known, Visit, Send, Steer, Done, memory, OwnIntervals
<1>4. ASSUME NEW n \in Nodes, LearnBaseline(n) PROVE Known'
  <2>1. learned \in OwnIntervals(n) /\ learned \in Nat \ {0}
    BY <1>4, OwnIntervalsPositive DEF Known, LearnBaseline
  <2>2. baseline' = [baseline EXCEPT ![n] = learned] /\ baseline'[n] # Unset
    BY <1>4, <2>1 DEF Known, LearnBaseline, Unset
  <2> QED
    BY <1>4, <2>1, <2>2 DEF Known, LearnBaseline, Send, Steer, Done, OwnIntervals
<1>5. ASSUME NEW n \in Nodes, CommandDone(n) \/ CommandFailed(n) PROVE Known'
  BY <1>5 DEF Known, CommandDone, CommandFailed, Done, memory, OwnIntervals
<1>6. CASE NodeAnswers
  <2>1. CASE ask = "get"
    BY <1>6, <2>1 DEF Known, NodeAnswers, memory, OwnIntervals
  <2>2. CASE ask = "put"
    <3> DEFINE v == Applied(Target(current, baseline[current]))
    <3>1. baseline[current] \in OwnIntervals(current)
      BY <2>2 DEF Known
    <3>2. v \in OwnIntervals(current) /\ v \in Nat
      BY <3>1, TargetOwn, OwnIntervalsPositive DEF Known
    <3>3. interval' = [interval EXCEPT ![current] = v]
      BY <1>6, <2>2 DEF NodeAnswers
    <3> HIDE DEF v
    <3> QED
      BY <1>6, <2>2, <3>2, <3>3 DEF Known, NodeAnswers, memory, OwnIntervals
  <2> QED
    BY <1>6, <2>1, <2>2 DEF Known, NodeAnswers
<1>7. CASE NodeNotReady
  BY <1>7 DEF Known, NodeNotReady, memory, OwnIntervals
<1>8. ASSUME NEW n \in Nodes, Register(n) \/ EstimateChanges(n) \/ Remove(n) PROVE Known'
  BY <1>8 DEF Known, Register, EstimateChanges, Remove, memory, exchange, OwnIntervals
<1>9. ASSUME NEW n \in Nodes, Reboot(n) PROVE Known'
  <2>1. DefaultInterval[n] \in Nat
    BY CongestionAssumption
  <2> QED
    BY <1>9, <2>1 DEF Known, Reboot, memory, exchange, OwnIntervals
<1>10. CASE Lose
  BY <1>10 DEF Known, Lose, memory, OwnIntervals
<1>11. CASE CloudRestarts
  BY <1>11 DEF Known, CloudRestarts, OwnIntervals, Unset
<1>12. CASE UNCHANGED cvars
  BY <1>12 DEF Known, cvars, memory, exchange, OwnIntervals
<1> QED
  BY <1>1, <1>2, <1>3, <1>4, <1>5, <1>6, <1>7, <1>8, <1>9, <1>10, <1>11, <1>12
     DEF Next, CloudStep

(* Every producer runs its own interval or the congested one, under every  *)
(* kind and number of faults: a GET or a PUT may be lost at any point and  *)
(* the cloud may forget everything, but it never holds one node's interval *)
(* for another's.                                                          *)
THEOREM AlwaysOwnOrCongested == Spec => []OwnOrCongested
<1>1. Known => OwnOrCongested
  BY DEF Known, OwnOrCongested, OwnIntervals
<1> QED
  BY <1>1, InitKnown, StepKnown, PTL DEF Spec
-----------------------------------------------------------------------------
(* ---- what was commanded is in effect ---- *)

\* The PUT of n was handled and its answer is on the way.
Answering(n) == ask = "put" /\ stage = "response" /\ current = n

\* Between two awaits the memory lags behind the one node that is answering.
InEffect ==
    /\ commanded \in [Nodes -> Nat]
    /\ pc = "sleep" => ask = "none"
    /\ \A n \in Nodes : Answering(n) => interval[n] = Applied(Target(n, baseline[n]))
    /\ \A n \in Nodes :
          commanded[n] # Unset => interval[n] = Applied(commanded[n]) \/ Answering(n)

LEMMA TargetNat ==
    ASSUME Known, NEW n \in Nodes
    PROVE  Target(n, baseline[n]) \in Nat
  BY CongestionAssumption DEF Known, Target

LEMMA InitInEffect == Init => InEffect
  BY DEF Init, InEffect, Answering, Unset

LEMMA StepInEffect ==
    Known /\ (~Estranged => InEffect) /\ [Next]_cvars => (~Estranged' => InEffect')
<1> SUFFICES ASSUME Known, ~Estranged => InEffect, [Next]_cvars, ~Estranged' PROVE InEffect'
  OBVIOUS
<1>0. InEffect
  BY SufferedGrows DEF Estranged
<1> USE <1>0
<1>1. CASE StartPass
  BY <1>1 DEF InEffect, Answering, StartPass, exchange, Unset
<1>2. CASE EndPass \/ BaselineFailed
  BY <1>2 DEF InEffect, Answering, EndPass, BaselineFailed, Done, exchange, memory, Target
<1>3. ASSUME NEW n \in Nodes, Visit(n) PROVE InEffect'
  BY <1>3 DEF InEffect, Answering, Visit, Send, Steer, Done, memory
<1>4. ASSUME NEW n \in Nodes, LearnBaseline(n) PROVE InEffect'
  BY <1>4 DEF InEffect, Answering, LearnBaseline, Send, Steer, Done
<1>5. ASSUME NEW n \in Nodes, CommandDone(n) PROVE InEffect'
  <2> DEFINE v == Target(n, baseline[n])
  <2>1. v \in Nat /\ interval[n] = Applied(v)
    BY <1>5, TargetNat DEF InEffect, Answering, CommandDone
  <2>2. commanded' = [commanded EXCEPT ![n] = v] /\ interval' = interval /\ ask' = "none"
    BY <1>5 DEF CommandDone, Done
  <2>3. \A m \in Nodes : m # n => ~Answering(m)
    BY <1>5 DEF CommandDone, Answering
  <2> HIDE DEF v
  <2> QED
    BY <2>1, <2>2, <2>3 DEF InEffect, Answering, Applied
<1>6. ASSUME NEW n \in Nodes, CommandFailed(n) PROVE InEffect'
  BY <1>6 DEF InEffect, Answering, CommandFailed, memory
<1>7. CASE NodeAnswers
  <2>1. CASE ask = "get"
    BY <1>7, <2>1 DEF InEffect, Answering, NodeAnswers, memory
  <2>2. CASE ask = "put"
    <3> DEFINE v == Applied(Target(current, baseline[current]))
    <3>1. interval' = [interval EXCEPT ![current] = v]
      BY <1>7, <2>2 DEF NodeAnswers
    <3>2. v = Applied(Target(current, baseline[current]))'
      BY <1>7, <2>2 DEF NodeAnswers, memory, Target, Applied
    <3>3. interval \in [Nodes -> Nat] /\ current \in Nodes
      BY DEF Known
    <3>4. interval'[current] = v /\ \A n \in Nodes : n # current => interval'[n] = interval[n]
      BY <3>1, <3>3
    <3>5. ask' = "put" /\ stage' = "response" /\ current' = current /\ pc' = pc
            /\ commanded' = commanded
      BY <1>7, <2>2 DEF NodeAnswers, memory
    <3>6. \A n \in Nodes : ~Answering(n)
      BY <1>7 DEF NodeAnswers, Answering
    <3>7. commanded' \in [Nodes -> Nat] /\ (pc' = "sleep" => ask' = "none")
      BY <2>2, <3>5 DEF InEffect
    <3>8. \A n \in Nodes : Answering(n)' <=> n = current
      BY <3>5 DEF Answering
    <3>9. \A n \in Nodes : Answering(n)' => (interval[n] = Applied(Target(n, baseline[n])))'
      BY <3>2, <3>4, <3>5, <3>8
    <3>10. \A n \in Nodes :
              commanded'[n] # Unset => interval'[n] = Applied(commanded'[n]) \/ Answering(n)'
      BY <3>4, <3>5, <3>6, <3>8 DEF InEffect
    <3> QED
      BY <3>7, <3>9, <3>10 DEF InEffect, Applied, Unset
  <2> QED
    BY <1>7, <2>1, <2>2 DEF Known, NodeAnswers
<1>8. CASE NodeNotReady \/ Lose
  <2>1. stage # "response" /\ stage' = "failed"
    BY <1>8 DEF NodeNotReady, Lose, Fault, Estranged
  <2> QED
    BY <1>8, <2>1 DEF InEffect, Answering, NodeNotReady, Lose, memory
<1>9. ASSUME NEW n \in Nodes, Register(n) \/ EstimateChanges(n) \/ Remove(n) PROVE InEffect'
  BY <1>9 DEF InEffect, Answering, Register, EstimateChanges, Remove, memory, exchange, Target
<1>10. ASSUME NEW n \in Nodes, Reboot(n) PROVE InEffect'
  BY <1>10 DEF Reboot, Fault, Estranged
<1>11. CASE CloudRestarts
  BY <1>11 DEF InEffect, Answering, CloudRestarts, Unset
<1>12. CASE UNCHANGED cvars
  BY <1>12 DEF InEffect, Answering, cvars, memory, exchange, Target
<1> QED
  BY <1>1, <1>2, <1>3, <1>4, <1>5, <1>6, <1>7, <1>8, <1>9, <1>10, <1>11, <1>12
     DEF Next, CloudStep

(* As long as no response to a command is lost and no node reboots, what   *)
(* the cloud remembers having commanded is what the node runs: requests    *)
(* may be lost, nodes be removed and come back, and the cloud may restart. *)
THEOREM CommandedAlwaysInEffect == Spec => []CommandedInEffect
<1>1. Init => Known /\ (~Estranged => InEffect)
  BY InitKnown, InitInEffect
<1>2. Known /\ (~Estranged => InEffect) /\ [Next]_cvars => Known' /\ (~Estranged => InEffect)'
  BY StepKnown, StepInEffect
<1>3. (~Estranged => InEffect) => CommandedInEffect
  BY DEF InEffect, Answering, CommandedInEffect
<1> QED
  BY <1>1, <1>2, <1>3, PTL DEF Spec
-----------------------------------------------------------------------------
(* ---- the baseline is the node's own ---- *)

\* A node is asked for its interval before it is given another one.
LearnedFirst ==
    /\ \A n \in Nodes : baseline[n] \in {Unset, DefaultInterval[n]}
    /\ \A n \in Nodes : baseline[n] = Unset => interval[n] = DefaultInterval[n]
    /\ ask = "get" => baseline[current] = Unset
    /\ ask = "get" /\ stage = "response" => learned = DefaultInterval[current]

LEMMA InitLearnedFirst == Init => LearnedFirst
  BY DEF Init, LearnedFirst, Unset

OwnLearned == "restart" \notin suffered => LearnedFirst

LEMMA StepLearnedFirst == Known /\ OwnLearned /\ [Next]_cvars => OwnLearned'
<1> SUFFICES ASSUME Known, OwnLearned, [Next]_cvars, "restart" \notin suffered'
             PROVE  LearnedFirst'
  BY DEF OwnLearned
<1>0. LearnedFirst
  BY SufferedGrows DEF OwnLearned
<1> USE <1>0
<1>1. CASE StartPass \/ EndPass \/ BaselineFailed
  BY <1>1 DEF LearnedFirst, StartPass, EndPass, BaselineFailed, Done, exchange, memory
<1>2. ASSUME NEW n \in Nodes, Visit(n) PROVE LearnedFirst'
  BY <1>2 DEF LearnedFirst, Visit, Send, Steer, Done, memory
<1>3. ASSUME NEW n \in Nodes, LearnBaseline(n) PROVE LearnedFirst'
  <2>1. baseline' = [baseline EXCEPT ![n] = DefaultInterval[n]] /\ interval' = interval
    BY <1>3 DEF LearnedFirst, LearnBaseline
  <2>2. ask' # "get"
    BY <1>3 DEF LearnBaseline, Steer, Send, Done
  <2> QED
    BY <2>1, <2>2 DEF LearnedFirst, Known
<1>4. ASSUME NEW n \in Nodes, CommandDone(n) \/ CommandFailed(n) PROVE LearnedFirst'
  BY <1>4 DEF LearnedFirst, CommandDone, CommandFailed, Done, memory
<1>5. CASE NodeAnswers
  <2>1. CASE ask = "get"
    BY <1>5, <2>1 DEF LearnedFirst, Known, NodeAnswers, memory
  <2>2. CASE ask = "put"
    BY <1>5, <2>2 DEF LearnedFirst, Known, NodeAnswers, memory
  <2> QED
    BY <1>5, <2>1, <2>2 DEF Known, NodeAnswers
<1>6. CASE NodeNotReady \/ Lose
  BY <1>6 DEF LearnedFirst, NodeNotReady, Lose, memory
<1>7. ASSUME NEW n \in Nodes, Register(n) \/ EstimateChanges(n) \/ Remove(n) PROVE LearnedFirst'
  BY <1>7 DEF LearnedFirst, Register, EstimateChanges, Remove, memory, exchange
<1>8. ASSUME NEW n \in Nodes, Reboot(n) PROVE LearnedFirst'
  BY <1>8 DEF LearnedFirst, Known, Reboot, memory, exchange
<1>9. CASE CloudRestarts
  BY <1>9 DEF CloudRestarts, Fault
<1>10. CASE UNCHANGED cvars
  BY <1>10 DEF LearnedFirst, cvars, memory, exchange
<1> QED
  BY <1>1, <1>2, <1>3, <1>4, <1>5, <1>6, <1>7, <1>8, <1>9, <1>10 DEF Next, CloudStep

(* Unless the cloud restarts, and then asks a node it has slowed down, the *)
(* interval it takes for a node's own is the one that node was built with, *)
(* whatever else goes wrong.                                               *)
THEOREM BaselineAlwaysOwn == Spec => []BaselineIsOwn
<1>1. Init => Known /\ OwnLearned
  BY InitKnown, InitLearnedFirst DEF OwnLearned
<1>2. Known /\ OwnLearned /\ [Next]_cvars => Known' /\ OwnLearned'
  BY StepKnown, StepLearnedFirst
<1>3. OwnLearned => BaselineIsOwn
  BY DEF OwnLearned, LearnedFirst, BaselineIsOwn
<1> QED
  BY <1>1, <1>2, <1>3, PTL DEF Spec
-----------------------------------------------------------------------------
(* ---- the types ---- *)

\* What Known does not say of the types.
RestTypeOK ==
    /\ booting \subseteq Nodes /\ registered \subseteq Nodes
    /\ estimate \in [Nodes -> {"none", "normal", "congested"}]
    /\ pc \in {"sleep", "pass"} /\ todo \subseteq Nodes
    /\ view \in [Nodes -> {"none", "normal", "congested"}]
    /\ commanded \in [Nodes -> Intervals]
    /\ stage \in {"request", "response", "failed"}
    /\ learned \in 0..StressedInterval
    /\ spent \in 0..MaxFaults /\ suffered \subseteq Faults

LEMMA OwnIntervalsTyped ==
    ASSUME NEW n \in Nodes
    PROVE  OwnIntervals(n) \subseteq 1..StressedInterval /\ OwnIntervals(n) \subseteq Intervals
  BY CongestionAssumption DEF OwnIntervals, Applied, Intervals

LEMMA KnownTypes == Known => /\ interval \in [Nodes -> 1..StressedInterval]
                             /\ baseline \in [Nodes -> 0..StressedInterval]
<1> SUFFICES ASSUME Known
             PROVE  /\ \A n \in Nodes : interval[n] \in 1..StressedInterval
                    /\ \A n \in Nodes : baseline[n] \in 0..StressedInterval
  BY DEF Known
<1> QED
  BY OwnIntervalsTyped, CongestionAssumption DEF Known, Unset

\* Only a baseline that is known is combined with the flag of the pass.
LEMMA TargetTyped ==
    ASSUME Known, NEW n \in Nodes, baseline[n] # Unset
    PROVE  Target(n, baseline[n]) \in Intervals
<1>1. baseline[n] \in Intervals
  BY OwnIntervalsTyped DEF Known
<1> QED
  BY <1>1 DEF Target, Intervals

LEMMA InitRest == Init => RestTypeOK
<1> SUFFICES ASSUME Init PROVE RestTypeOK
  OBVIOUS
<1> QED
  BY CongestionAssumption DEF Init, RestTypeOK, Intervals, Unset

LEMMA FaultTyped ==
    ASSUME RestTypeOK, NEW kind, Fault(kind)
    PROVE  spent' \in 0..MaxFaults /\ suffered' \subseteq Faults
  BY CongestionAssumption DEF RestTypeOK, Fault

LEMMA StepRest == Known /\ RestTypeOK /\ [Next]_cvars => RestTypeOK'
<1> SUFFICES ASSUME Known, RestTypeOK, [Next]_cvars PROVE RestTypeOK'
  OBVIOUS
<1>u. Unset \in Intervals
  BY DEF Intervals
<1>i. UNCHANGED Intervals
  BY DEF Intervals, Applied
<1>1. CASE StartPass
  BY <1>1, <1>u, <1>i DEF RestTypeOK, StartPass, exchange, faults
<1>2. CASE EndPass \/ BaselineFailed
  BY <1>2, <1>i DEF RestTypeOK, EndPass, BaselineFailed, Done, exchange, memory, faults
<1>3. ASSUME NEW n \in Nodes, Visit(n) \/ LearnBaseline(n) \/ CommandFailed(n) PROVE RestTypeOK'
  BY <1>3, <1>i DEF RestTypeOK, Visit, LearnBaseline, CommandFailed, Steer, Send, Done, memory,
                    faults
<1>4. ASSUME NEW n \in Nodes, CommandDone(n) PROVE RestTypeOK'
  <2>1. Target(n, baseline[n]) \in Intervals
    BY <1>4, TargetTyped DEF Known, CommandDone
  <2>2. commanded' \in [Nodes -> Intervals]
    BY <1>4, <2>1 DEF RestTypeOK, CommandDone
  <2> QED
    BY <1>4, <2>2, <1>i DEF RestTypeOK, CommandDone, Done, faults
<1>5. CASE NodeAnswers
  <2>1. interval[current] \in 0..StressedInterval
    BY KnownTypes, CongestionAssumption DEF Known
  <2> QED
    BY <1>5, <2>1, <1>i DEF RestTypeOK, NodeAnswers, memory, faults
<1>6. CASE NodeNotReady
  BY <1>6, <1>i DEF RestTypeOK, NodeNotReady, memory, faults
<1>7. ASSUME NEW n \in Nodes, Register(n) \/ EstimateChanges(n) PROVE RestTypeOK'
  BY <1>7, <1>i DEF RestTypeOK, Register, EstimateChanges, memory, exchange, faults
<1>8. ASSUME NEW n \in Nodes, Remove(n) \/ Reboot(n) PROVE RestTypeOK'
  BY <1>8, <1>i, FaultTyped DEF RestTypeOK, Remove, Reboot, memory, exchange
<1>9. CASE Lose
  BY <1>9, <1>i, FaultTyped DEF RestTypeOK, Lose, memory
<1>10. CASE CloudRestarts
  <2>1. Unset \in 0..StressedInterval
    BY CongestionAssumption DEF Unset
  <2> QED
    BY <1>10, <1>u, <1>i, <2>1, FaultTyped DEF RestTypeOK, CloudRestarts
<1>11. CASE UNCHANGED cvars
  BY <1>11, <1>i DEF RestTypeOK, cvars, memory, exchange, faults
<1> QED
  BY <1>1, <1>2, <1>3, <1>4, <1>5, <1>6, <1>7, <1>8, <1>9, <1>10, <1>11 DEF Next, CloudStep

(* The types hold for every set of nodes and every interval: above all,    *)
(* the cloud never commands an interval that is no node's own and not the  *)
(* congested one, not even while a baseline is unknown.                    *)
THEOREM CongestionTypeCorrect == Spec => []TypeOK
<1>1. Known /\ RestTypeOK => TypeOK
  BY KnownTypes DEF Known, RestTypeOK, TypeOK
<1> QED
  BY <1>1, InitKnown, StepKnown, InitRest, StepRest, PTL DEF Spec
=============================================================================
