------------------------- MODULE DeviceStatusProofs -------------------------
(***************************************************************************)
(* The on/off life of a producer for every warm-up delay and every range   *)
(* of readings.  The inductive invariant joins the four properties that    *)
(* speak of the device itself: each of them leans on the others (a timer   *)
(* that fires needs FullWarmup to know how long it ran and OffSticks to    *)
(* know that no "off" came).                                               *)
(***************************************************************************)
EXTENDS DeviceStatus, TLAPS

\* A firmware compiled without a warm-up never starts anything.
NoWarmupCompiled == StartupDelay = 0 => ~device_starting /\ startup_timer = NotSet

DeviceTypeOK ==
    /\ build \in Builds
    /\ device_on \in BOOLEAN
    /\ device_starting \in BOOLEAN
    /\ startup_timer \in NotSet .. StartupDelay
    /\ waited \in 0..StartupDelay

IInv == DeviceTypeOK /\ WarmupConsistent /\ OffSticks /\ FullWarmup /\ NoWarmupCompiled

LEMMA BuildTypes ==
    ASSUME build \in Builds
    PROVE  StartupDelay \in Nat /\ DefaultOn \in BOOLEAN
  BY DeviceAssumption DEF StartupDelay, DefaultOn

(* No step exchanges the firmware.                                         *)
LEMMA SameBuild ==
    ASSUME IInv, [Next]_dvars
    PROVE  /\ build' = build /\ build' \in Builds
           /\ StartupDelay' = StartupDelay /\ StartupDelay \in Nat
           /\ DefaultOn' = DefaultOn /\ DefaultOn \in BOOLEAN
<1>1. build' = build
  BY DEF Next, ActivateResources, NotFound, GetStatus, PutOff, PutOnWarmUp, PutOnAgain,
         PutOnAtOnce, PutInvalid, Tick, StartupComplete, PublishIdle, PublishReading,
         PublishFault, Publish, Reboot, dvars
<1>2. StartupDelay' = StartupDelay /\ DefaultOn' = DefaultOn
  BY <1>1 DEF StartupDelay, DefaultOn
<1> QED
  BY <1>1, <1>2, BuildTypes DEF IInv, DeviceTypeOK

LEMMA TimerRange ==
    ASSUME StartupDelay \in Nat
    PROVE  NotSet \in NotSet .. StartupDelay /\ 0 \in 0..StartupDelay
  BY DEF NotSet

LEMMA AlarmsBoolean == ASSUME NEW alarm \in ModelAlarms PROVE alarm \in BOOLEAN
<1> PICK v \in Volts, i \in Amperes : alarm = DetectAnomaly(v, i)
  BY DEF ModelAlarms
<1> QED
  BY Zenon DEF DetectAnomaly

LEMMA InitInvariant == Init => IInv
<1> SUFFICES ASSUME Init PROVE IInv
  OBVIOUS
<1>b. StartupDelay \in Nat /\ DefaultOn \in BOOLEAN
  BY BuildTypes DEF Init
<1> USE <1>b DEF Init, NotSet
<1>1. DeviceTypeOK
  BY TimerRange DEF DeviceTypeOK
<1>2. WarmupConsistent
  BY DEF WarmupConsistent
<1>3. OffSticks
  BY DEF OffSticks
<1>4. FullWarmup
  BY DEF FullWarmup
<1>5. NoWarmupCompiled
  BY DEF NoWarmupCompiled
<1> QED
  BY <1>1, <1>2, <1>3, <1>4, <1>5 DEF IInv

(* A step that touches neither the device nor the history keeps IInv.      *)
LEMMA QuietStep ==
    ASSUME IInv, UNCHANGED <<device, history>>,
           UNCHANGED build, StartupDelay' = StartupDelay, DefaultOn' = DefaultOn
    PROVE  IInv'
  BY DEF device, history, IInv, DeviceTypeOK, WarmupConsistent, OffSticks, FullWarmup,
         NoWarmupCompiled

LEMMA StepInvariant == IInv /\ [Next]_dvars => IInv'
<1> SUFFICES ASSUME IInv, [Next]_dvars PROVE IInv'
  OBVIOUS
<1>b. /\ build' = build /\ build' \in Builds
      /\ StartupDelay' = StartupDelay /\ StartupDelay \in Nat
      /\ DefaultOn' = DefaultOn /\ DefaultOn \in BOOLEAN
  BY SameBuild
<1> USE <1>b
    DEF IInv, DeviceTypeOK, WarmupConsistent, OffSticks, FullWarmup, NoWarmupCompiled, NotSet
<1>1. CASE PutOff
  <2>1. DeviceTypeOK'
    BY <1>1, TimerRange DEF PutOff
  <2>2. WarmupConsistent'
    BY <1>1 DEF PutOff
  <2>3. OffSticks'
    BY <1>1 DEF PutOff
  <2>4. FullWarmup'
    BY <1>1 DEF PutOff
  <2>5. NoWarmupCompiled'
    BY <1>1 DEF PutOff
  <2> QED
    BY <2>1, <2>2, <2>3, <2>4, <2>5
<1>2. CASE PutOnWarmUp
  BY <1>2 DEF PutOnWarmUp
<1>3. CASE PutOnAgain
  BY <1>3 DEF PutOnAgain, device
<1>4. CASE PutOnAtOnce
  <2>1. DeviceTypeOK'
    BY <1>4 DEF PutOnAtOnce
  <2>2. WarmupConsistent'
    BY <1>4 DEF PutOnAtOnce
  <2>3. OffSticks'
    BY <1>4 DEF PutOnAtOnce
  <2>4. FullWarmup'
    BY <1>4 DEF PutOnAtOnce
  <2>5. NoWarmupCompiled'
    BY <1>4 DEF PutOnAtOnce
  <2> QED
    BY <2>1, <2>2, <2>3, <2>4, <2>5
<1>5. CASE Tick
  BY <1>5 DEF Tick
<1>6. CASE StartupComplete
  <2>1. /\ startup_timer = 0 /\ device_starting /\ waited = StartupDelay
        /\ lastCommand \notin {"off", "fault"}
    BY <1>6 DEF StartupComplete
  <2>2. waited' = waited /\ lastCommand' = lastCommand
    BY <1>6 DEF StartupComplete, history
  <2> QED
    BY <1>6, <2>1, <2>2, TimerRange DEF StartupComplete
<1>7. ASSUME NEW reading, NEW anomaly \in BOOLEAN, Publish(reading, anomaly),
             device_on \/ ~anomaly
      PROVE  IInv'
  <2>1. CASE anomaly
    BY <1>7, <2>1 DEF Publish
  <2>2. CASE ~anomaly
    <3>1. device_on' = device_on /\ lastCommand' = lastCommand
      BY <1>7, <2>2 DEF Publish
    <3> QED
      BY <1>7, <3>1 DEF Publish
  <2> QED
    BY <2>1, <2>2
<1>8. CASE PublishIdle
  BY <1>7, <1>8 DEF PublishIdle
<1>9. CASE PublishReading
  BY <1>7, <1>9, AlarmsBoolean DEF PublishReading
<1>10. CASE PublishFault
  BY <1>7, <1>10 DEF PublishFault
<1>11. CASE Reboot
  <2>1. DeviceTypeOK'
    BY <1>11, TimerRange DEF Reboot
  <2>2. WarmupConsistent'
    BY <1>11 DEF Reboot
  <2>3. OffSticks'
    BY <1>11 DEF Reboot
  <2>4. FullWarmup'
    BY <1>11 DEF Reboot
  <2>5. NoWarmupCompiled'
    BY <1>11 DEF Reboot
  <2> QED
    BY <2>1, <2>2, <2>3, <2>4, <2>5
<1>12. CASE ActivateResources \/ NotFound \/ GetStatus \/ PutInvalid \/ UNCHANGED dvars
  BY <1>12, QuietStep DEF ActivateResources, NotFound, GetStatus, PutInvalid, dvars
<1> QED
  BY <1>1, <1>2, <1>3, <1>4, <1>5, <1>6, <1>8, <1>9, <1>10, <1>11, <1>12 DEF Next

(* Every reachable state satisfies the inductive invariant.                *)
THEOREM InvariantHolds == Spec => []IInv
  BY InitInvariant, StepInvariant, PTL DEF Spec

(* starting, on and the timer never contradict each other, whatever order  *)
(* requests, callbacks, faults and power cycles come in.                   *)
THEOREM WarmupAlwaysConsistent == Spec => []WarmupConsistent
<1>1. IInv => WarmupConsistent
  BY DEF IInv
<1> QED
  BY <1>1, InvariantHolds, PTL

(* No timer survives an "off" or a fault to switch the device on again.    *)
THEOREM OffAlwaysSticks == Spec => []OffSticks
<1>1. IInv => OffSticks
  BY DEF IInv
<1> QED
  BY <1>1, InvariantHolds, PTL

(* A device that was off at boot runs only after one whole warm-up.        *)
THEOREM WarmupIsAlwaysFull == Spec => []FullWarmup
<1>1. IInv => FullWarmup
  BY DEF IInv
<1> QED
  BY <1>1, InvariantHolds, PTL
-----------------------------------------------------------------------------
(* Seen through Status and the timer, each step is one of Generator, or    *)
(* none of its business.                                                   *)
LEMMA StepRefinesGenerator == IInv /\ [Next]_dvars => [Gen!Next]_(Gen!gvars)
<1> SUFFICES ASSUME IInv, [Next]_dvars PROVE [Gen!Next]_(Gen!gvars)
  OBVIOUS
<1>b. /\ build' = build
      /\ StartupDelay' = StartupDelay /\ StartupDelay \in Nat
      /\ DefaultOn' = DefaultOn /\ DefaultOn \in BOOLEAN
  BY SameBuild
<1> USE <1>b
    DEF IInv, DeviceTypeOK, WarmupConsistent, NoWarmupCompiled, NotSet, Gen!Cold, Status,
        Gen!fixed
<1>1. CASE PutOff
  BY <1>1 DEF PutOff, Gen!Next, Gen!Stop
<1>2. CASE PutOnWarmUp
  BY <1>2 DEF PutOnWarmUp, Gen!Next, Gen!Start
<1>3. CASE PutOnAtOnce
  <2>1. CASE device_on
    BY <1>3, <2>1 DEF PutOnAtOnce, Gen!gvars
  <2>2. CASE ~device_on
    BY <1>3, <2>2 DEF PutOnAtOnce, Gen!Next, Gen!Start
  <2> QED
    BY <2>1, <2>2
<1>4. CASE Tick
  BY <1>4 DEF Tick, Gen!Next, Gen!Tick
<1>5. CASE StartupComplete
  BY <1>5 DEF StartupComplete, Gen!Next, Gen!Ready
<1>6. ASSUME NEW reading, NEW anomaly \in BOOLEAN, Publish(reading, anomaly),
             device_on \/ ~anomaly
      PROVE  [Gen!Next]_(Gen!gvars)
  <2>1. CASE anomaly
    BY <1>6, <2>1 DEF Publish, Gen!Next, Gen!Trip
  <2>2. CASE ~anomaly
    BY <1>6, <2>2 DEF Publish, Gen!gvars
  <2> QED
    BY <2>1, <2>2
<1>7. CASE PublishIdle
  BY <1>6, <1>7 DEF PublishIdle
<1>8. CASE PublishReading
  BY <1>6, <1>8, AlarmsBoolean DEF PublishReading
<1>9. CASE PublishFault
  BY <1>6, <1>9 DEF PublishFault
<1>10. CASE Reboot
  BY <1>10 DEF Reboot, Gen!Next, Gen!PowerCycle, Gen!Boot
<1>11. CASE UNCHANGED device
  BY <1>11 DEF device, Gen!gvars
<1> QED
  BY <1>1, <1>2, <1>3, <1>4, <1>5, <1>7, <1>8, <1>9, <1>10, <1>11
     DEF Next, ActivateResources, NotFound, GetStatus, PutOnAgain, PutInvalid, dvars

(* The node as built is a Generator, for every delay and every reading.    *)
THEOREM DeviceImplementsGenerator == Spec => ImplementsGenerator
<1>1. Init => Gen!Init
  BY BuildTypes DEF Init, Gen!Init, Gen!Boot, Gen!Cold, NotSet, Status
<1>2. IInv /\ [Next]_dvars => [Gen!Next]_(Gen!gvars)
  BY StepRefinesGenerator
<1> QED
  BY <1>1, <1>2, InvariantHolds, PTL DEF Spec, ImplementsGenerator, Gen!Spec
-----------------------------------------------------------------------------
(* Between the message of a fault and an "on", the device stays off: what  *)
(* FaultThenOff needs to know of the state the next message is made from.  *)
OffSinceFault == telemetry.anomaly /\ ~resumed => ~device_on /\ ~device_starting

MInv == OffSinceFault /\ FaultThenOff

LEMMA InitMessages == Init => MInv
  BY DEF Init, MInv, OffSinceFault, FaultThenOff, NoMessage

LEMMA StepMessages == IInv /\ MInv /\ [Next]_dvars => MInv'
<1> SUFFICES ASSUME IInv, MInv, [Next]_dvars PROVE MInv'
  OBVIOUS
<1> USE DEF MInv, OffSinceFault, FaultThenOff, messages
<1>w. WarmupConsistent /\ device_on \in BOOLEAN /\ device_starting \in BOOLEAN
  BY DEF IInv, DeviceTypeOK
<1>1. CASE PutOff
  <2>1. ~device_on' /\ (device_starting' => device_starting)
    BY <1>1 DEF PutOff
  <2> QED
    BY <1>1, <2>1 DEF PutOff
<1>2. CASE PutOnWarmUp
  BY <1>2 DEF PutOnWarmUp
<1>3. CASE PutOnAgain \/ PutOnAtOnce
  BY <1>3 DEF PutOnAgain, PutOnAtOnce
<1>4. CASE Tick
  BY <1>4 DEF Tick
<1>5. CASE StartupComplete
  <2>1. device_starting
    BY <1>5, <1>w DEF StartupComplete, WarmupConsistent, NotSet
  <2> QED
    BY <1>5, <2>1 DEF StartupComplete
<1>6. ASSUME NEW reading, NEW anomaly \in BOOLEAN, Publish(reading, anomaly),
             anomaly => device_on, ~device_on => reading = "zero"
      PROVE  MInv'
  <2>1. OffSinceFault'
    BY <1>6, <1>w DEF Publish, Arrives, Lost, Status, WarmupConsistent
  <2>2. FaultThenOff'
    <3>1. CASE Lost
      BY <3>1 DEF Lost
    <3>2. CASE Arrives(reading, anomaly, Status)
      BY <1>6, <3>2 DEF Arrives, Status
    <3> QED
      BY <1>6, <3>1, <3>2 DEF Publish
  <2> QED
    BY <2>1, <2>2
<1>7. CASE PublishIdle
  BY <1>6, <1>7 DEF PublishIdle
<1>8. CASE PublishReading
  BY <1>6, <1>8, AlarmsBoolean DEF PublishReading
<1>9. CASE PublishFault
  BY <1>6, <1>9 DEF PublishFault
<1>10. CASE Reboot
  BY <1>10 DEF Reboot
<1>11. CASE ActivateResources \/ NotFound \/ GetStatus \/ PutInvalid \/ UNCHANGED dvars
  BY <1>11 DEF ActivateResources, NotFound, GetStatus, PutInvalid, dvars, device
<1> QED
  BY <1>1, <1>2, <1>3, <1>4, <1>5, <1>7, <1>8, <1>9, <1>10, <1>11 DEF Next

(* The cloud sees a fault once, and after it zeros and OFF, until an "on"  *)
(* or a power cycle.                                                       *)
THEOREM FaultIsAlwaysFollowedByOff == Spec => []FaultThenOff
<1>1. MInv => FaultThenOff
  BY DEF MInv
<1> QED
  BY <1>1, InitMessages, StepMessages, InvariantHolds, PTL DEF Spec
-----------------------------------------------------------------------------
(* A sensor that reads at least 1 V and less than 83 A never makes the     *)
(* decision tree see an anomaly in a normal reading.                       *)
LEMMA NormalReadingsPass ==
    ASSUME build \in Builds, build.vbase # 0, build.ibase + build.irange <= 83
    PROVE  \A alarm \in ModelAlarms : alarm = FALSE
<1> SUFFICES ASSUME NEW v \in Volts, NEW i \in Amperes
             PROVE  ~DetectAnomaly(v, i)
  <2> TAKE alarm \in ModelAlarms
  <2>1. PICK v \in Volts, i \in Amperes : alarm = DetectAnomaly(v, i)
    BY DEF ModelAlarms
  <2>2. ~DetectAnomaly(v, i)
    OBVIOUS
  <2>3. DetectAnomaly(v, i) \in BOOLEAN
    BY Zenon DEF DetectAnomaly
  <2> QED
    BY Zenon, <2>1, <2>2, <2>3
<1>1. v \in Int /\ v >= 10
  BY DeviceAssumption DEF Volts
<1>2. i \in Int /\ i <= 829
  BY DeviceAssumption DEF Amperes
<1> QED
  BY <1>1, <1>2 DEF DetectAnomaly

(* For such a sensor every message of an anomaly carries the reading that  *)
(* caused it and status ON, and zeros are what an idle device sends.       *)
THEOREM FaultAlwaysCarriesContext ==
    ASSUME \A b \in Builds : b.vbase # 0 /\ b.ibase + b.irange <= 83
    PROVE  Spec => []FaultCarriesContext
<1>1. Init => FaultCarriesContext
  BY DEF Init, NoMessage, FaultCarriesContext
<1>2. IInv /\ FaultCarriesContext /\ [Next]_dvars => FaultCarriesContext'
  <2> SUFFICES ASSUME IInv, FaultCarriesContext, [Next]_dvars PROVE FaultCarriesContext'
    OBVIOUS
  <2>1. CASE PublishIdle
    BY <2>1 DEF PublishIdle, Publish, Arrives, Lost, messages, FaultCarriesContext, Status
  <2>2. CASE PublishReading
    <3>1. Publish("normal", FALSE) /\ device_on
      BY <2>2, NormalReadingsPass DEF PublishReading, IInv, DeviceTypeOK
    <3> QED
      BY <3>1 DEF Publish, Arrives, Lost, messages, FaultCarriesContext, Status
  <2>3. CASE PublishFault
    BY <2>3 DEF PublishFault, Publish, Arrives, Lost, messages, FaultCarriesContext, Status
  <2>4. CASE UNCHANGED telemetry
    BY <2>4 DEF FaultCarriesContext
  <2> QED
    BY <2>1, <2>2, <2>3, <2>4
       DEF Next, ActivateResources, NotFound, GetStatus, PutOff, PutOnWarmUp, PutOnAgain,
           PutOnAtOnce, PutInvalid, Tick, StartupComplete, Reboot, dvars, messages
<1> QED
  BY <1>1, <1>2, InvariantHolds, PTL DEF Spec
-----------------------------------------------------------------------------
\* TypeOK without what IInv has of it already.
RestTypeOK ==
    /\ activated \in BOOLEAN
    /\ reply \in Statuses \cup {"none", "4.00", "4.04"}
    /\ telemetry \in Messages /\ previous \in Messages
    /\ resumed \in BOOLEAN
    /\ lastCommand \in {"boot", "on", "off", "fault"}

LEMMA StatusType == Status \in Statuses
  BY DEF Status, Statuses

LEMMA InitTypes == Init => RestTypeOK
<1>1. NoMessage \in Messages
  BY DEF NoMessage, Messages, Classes, Statuses
<1>2. FALSE \in BOOLEAN /\ TRUE \in BOOLEAN
  OBVIOUS
<1> QED
  BY Zenon, <1>1, <1>2 DEF Init, RestTypeOK

LEMMA StepTypes == IInv /\ RestTypeOK /\ [Next]_dvars => RestTypeOK'
<1> SUFFICES ASSUME IInv, RestTypeOK, [Next]_dvars PROVE RestTypeOK'
  OBVIOUS
<1> USE DEF RestTypeOK
<1>1. CASE ActivateResources \/ NotFound \/ PutOff \/ PutInvalid \/ Reboot
  BY <1>1 DEF ActivateResources, NotFound, PutOff, PutInvalid, Reboot, messages, history, Statuses
<1>2. CASE GetStatus \/ PutOnAgain
  BY <1>2, StatusType DEF GetStatus, PutOnAgain, messages, history
<1>3. CASE PutOnWarmUp \/ PutOnAtOnce
  BY <1>3 DEF PutOnWarmUp, PutOnAtOnce, messages, Statuses
<1>4. CASE Tick \/ StartupComplete \/ UNCHANGED dvars
  BY <1>4 DEF Tick, StartupComplete, messages, history, dvars
<1>5. ASSUME NEW reading \in Classes, NEW anomaly \in BOOLEAN, Publish(reading, anomaly)
      PROVE  RestTypeOK'
  <2>1. telemetry' \in Messages /\ previous' \in Messages /\ resumed' \in BOOLEAN
    <3>1. CASE Lost
      BY <3>1 DEF Lost, messages
    <3>2. CASE Arrives(reading, anomaly, Status)
      BY <1>5, <3>2, StatusType DEF Arrives, Messages
    <3> QED
      BY <1>5, <3>1, <3>2 DEF Publish
  <2>2. lastCommand' \in {"boot", "on", "off", "fault"}
    BY <1>5 DEF Publish
  <2> QED
    BY <1>5, <2>1, <2>2 DEF Publish
<1>6. CASE PublishIdle \/ PublishReading \/ PublishFault
  <2>1. {"zero", "normal", "fault"} \subseteq Classes /\ TRUE \in BOOLEAN /\ FALSE \in BOOLEAN
    BY DEF Classes
  <2> QED
    BY <1>5, <1>6, <2>1, AlarmsBoolean DEF PublishIdle, PublishReading, PublishFault
<1> QED
  BY <1>1, <1>2, <1>3, <1>4, <1>5, <1>6 DEF Next

(* Every variable keeps its type, the messages the cloud gets included.    *)
THEOREM DeviceTypeCorrect == Spec => []TypeOK
<1>1. IInv /\ RestTypeOK => TypeOK
  BY DEF IInv, DeviceTypeOK, RestTypeOK, TypeOK
<1> QED
  BY <1>1, InitTypes, StepTypes, InvariantHolds, PTL DEF Spec
=============================================================================
