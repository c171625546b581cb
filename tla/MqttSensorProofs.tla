-------------------------- MODULE MqttSensorProofs --------------------------
(***************************************************************************)
(* The MQTT process of a producer for every interval, every clock rate and *)
(* any number of faults and requests.  PeriodInEffect speaks of connected  *)
(* nodes only and is not inductive: a node may change its timer or its     *)
(* interval while it is away, so IInv says the same of every state.        *)
(***************************************************************************)
EXTENDS MqttSensor, TLAPS

SensorTypeOK ==
    /\ mqtt_state \in {"init", "connecting", "connected", "disconnected"}
    /\ connect_attempts \in 0..MaxAttempts
    /\ dirty \in BOOLEAN /\ poll \in BOOLEAN
    /\ conn \in {"idle", "trying", "up"}

CleanPeriod ==
    ~dirty => pub_timer.length \in {Ticks(interval), ReconnectDelay, ClockSecond}

IInv == /\ SensorTypeOK /\ StateTracksConnection /\ NoLostInterval
        /\ AttemptsLeft /\ CleanPeriod

LEMMA RunningLength == \A t : Running(t).length = t
  BY DEF Running

LEMMA InitInvariant == Init => IInv
<1> SUFFICES ASSUME Init PROVE IInv
  OBVIOUS
<1> USE DEF Init, PoweredOn
<1>1. SensorTypeOK
  <2>1. mqtt_state = "init" /\ conn = "idle" /\ dirty \in BOOLEAN /\ poll \in BOOLEAN
    BY Zenon
  <2>2. connect_attempts \in 0..MaxAttempts
    BY DEF MaxAttempts
  <2> QED
    BY <2>1, <2>2 DEF SensorTypeOK
<1>2. StateTracksConnection /\ NoLostInterval /\ AttemptsLeft
  BY DEF StateTracksConnection, NoLostInterval, AttemptsLeft, MaxAttempts
<1>3. CleanPeriod
  BY RunningLength DEF CleanPeriod
<1> QED
  BY <1>1, <1>2, <1>3 DEF IInv

(* What the cloud asks for is applied by the poll that comes with it.      *)
LEMMA PutKeeps == \A ms : IInv /\ PutSampling(ms) => IInv'
<1> SUFFICES ASSUME NEW ms, IInv, PutSampling(ms) PROVE IInv'
  OBVIOUS
<1>1. \/ UNCHANGED <<interval, dirty, poll>>
      \/ dirty' = TRUE /\ poll' = TRUE
  BY DEF PutSampling, set_publish_interval_ms
<1>2. UNCHANGED <<mqtt_state, connect_attempts, pub_timer, conn>>
  BY DEF PutSampling, external
<1> USE DEF IInv, SensorTypeOK, StateTracksConnection, NoLostInterval, AttemptsLeft
<1>3. CASE UNCHANGED <<interval, dirty, poll>>
  BY <1>2, <1>3 DEF CleanPeriod
<1>4. CASE dirty' = TRUE /\ poll' = TRUE
  BY <1>2, <1>4 DEF CleanPeriod
<1> QED
  BY <1>1, <1>3, <1>4

(* Every pass with the timer expired leaves a poll that has an interval to *)
(* apply where it is.                                                      *)
LEMMA PassKeepsPoll == IInv /\ WokenExpired => poll' \in BOOLEAN /\ (Applicable => poll' = poll)
  BY DEF WokenExpired, IInv, SensorTypeOK

LEMMA StepInvariant == IInv /\ [Next]_svars => IInv'
<1> SUFFICES ASSUME IInv, [Next]_svars PROVE IInv'
  OBVIOUS
<1> USE DEF IInv, SensorTypeOK, StateTracksConnection, NoLostInterval, AttemptsLeft,
            CleanPeriod, MaxAttempts
<1>1. CASE \E ms \in Bodies : PutSampling(ms)
  BY <1>1, PutKeeps
<1>2. CASE ApplyInterval
  BY <1>2, RunningLength DEF ApplyInterval, external
<1>3. CASE IgnorePoll
  BY <1>3 DEF IgnorePoll, Applicable, external
<1>4. CASE WaitForNetwork
  BY <1>4, PassKeepsPoll, RunningLength DEF WaitForNetwork, Applicable, external
<1>5. CASE StartConnect
  BY <1>5, PassKeepsPoll, RunningLength DEF StartConnect
<1>6. CASE KeepWaiting
  BY <1>6, PassKeepsPoll, RunningLength DEF KeepWaiting, external
<1>7. CASE GiveUp
  BY <1>7, PassKeepsPoll, RunningLength DEF GiveUp
<1>8. CASE WaitForStack
  BY <1>8, PassKeepsPoll, RunningLength DEF WaitForStack, Applicable, external
<1>9. CASE Publish
  BY <1>9, PassKeepsPoll, RunningLength DEF Publish, Applicable, external
<1>10. CASE TimerExpires
  <2>1. pub_timer'.length = pub_timer.length
    BY <1>10 DEF TimerExpires
  <2> QED
    BY <1>10, <2>1 DEF TimerExpires, external
<1>11. CASE EventConnected
  BY <1>11 DEF EventConnected
<1>12. CASE EventDisconnected
  BY <1>12 DEF EventDisconnected
<1>13. CASE StackRetries
  BY <1>13 DEF StackRetries
<1>14. CASE GetSampling \/ QueueFills \/ QueueDrains \/ NetworkUp \/ NetworkDown
            \/ UNCHANGED svars
  BY <1>14 DEF GetSampling, QueueFills, QueueDrains, NetworkUp, NetworkDown, svars, external
<1>15. CASE Reboot
  <2>1. SensorTypeOK'
    <3>1. mqtt_state' = "init" /\ conn' = "idle" /\ dirty' \in BOOLEAN /\ poll' \in BOOLEAN
      BY Zenon, <1>15 DEF Reboot
    <3>2. connect_attempts' \in 0..MaxAttempts
      BY <1>15 DEF Reboot
    <3> QED
      BY <3>1, <3>2
  <2>2. StateTracksConnection' /\ NoLostInterval' /\ AttemptsLeft'
    BY <1>15 DEF Reboot
  <2>3. CleanPeriod'
    BY <1>15, RunningLength DEF Reboot
  <2> QED
    BY <2>1, <2>2, <2>3
<1> QED
  BY <1>1, <1>2, <1>3, <1>4, <1>5, <1>6, <1>7, <1>8, <1>9, <1>10, <1>11, <1>12, <1>13,
     <1>14, <1>15
     DEF Next, TimerPass

(* Every reachable state satisfies the inductive invariant.                *)
THEOREM InvariantHolds == Spec => []IInv
  BY InitInvariant, StepInvariant, PTL DEF Spec

(* The process and the library never disagree on being connected, however  *)
(* late a CONNACK comes and whenever a connection breaks.                  *)
THEOREM StateAlwaysTracksConnection == Spec => []StateTracksConnection
<1>1. IInv => StateTracksConnection
  BY DEF IInv
<1> QED
  BY <1>1, InvariantHolds, PTL

(* A connected node never holds an interval nobody will apply.             *)
THEOREM NoIntervalIsLost == Spec => []NoLostInterval
<1>1. IInv => NoLostInterval
  BY DEF IInv
<1> QED
  BY <1>1, InvariantHolds, PTL

(* A node that waits for its broker always has an attempt left.            *)
THEOREM AttemptsAreAlwaysLeft == Spec => []AttemptsLeft
<1>1. IInv => AttemptsLeft
  BY DEF IInv
<1> QED
  BY <1>1, InvariantHolds, PTL

(* The timer of a connected node with nothing left to apply runs the       *)
(* interval the cloud asked for last, or one of the two fixed delays.      *)
THEOREM PeriodIsAlwaysInEffect == Spec => []PeriodInEffect
<1>1. IInv => PeriodInEffect
  BY DEF IInv, CleanPeriod, PeriodInEffect
<1> QED
  BY <1>1, InvariantHolds, PTL
-----------------------------------------------------------------------------
\* TypeOK without what IInv has of it already.
RestTypeOK ==
    /\ pub_timer \in [length : Nat, expired : BOOLEAN]
    /\ interval \in 1..StressedInterval
    /\ ready \in BOOLEAN /\ net \in BOOLEAN
    /\ reply \in {"none", "2.04", "2.05", "4.00"}
    /\ puts \in 0..MaxPuts /\ faults \in 0..MaxFaults

(* The length of a period in ticks is a natural number, whatever the clock *)
(* rate.                                                                   *)
LEMMA TicksType == ASSUME NEW ms \in Nat PROVE Ticks(ms) \in Nat
<1>1. ms * ClockSecond \in Nat
  BY SensorAssumption
<1>2. (ms * ClockSecond + 999) \div 1000 \in Nat
  BY <1>1
<1> QED
  BY <1>2 DEF Ticks

LEMMA RunningType ==
    ASSUME NEW t \in Nat PROVE Running(t) \in [length : Nat, expired : BOOLEAN]
  BY DEF Running

LEMMA DelayTypes == ReconnectDelay \in Nat /\ ClockSecond \in Nat
  BY SensorAssumption DEF ReconnectDelay

(* The clamps keep every accepted interval within the node's limits.       *)
LEMMA NormalisedType ==
    ASSUME NEW ms \in Nat PROVE Normalised(ms) \in 1..StressedInterval
  BY SensorAssumption DEF Normalised

LEMMA InitTypes == Init => RestTypeOK
<1> SUFFICES ASSUME Init PROVE RestTypeOK
  OBVIOUS
<1>1. pub_timer \in [length : Nat, expired : BOOLEAN]
  BY RunningType, DelayTypes DEF Init, PoweredOn
<1>2. ready \in BOOLEAN /\ net \in BOOLEAN /\ reply \in {"none", "2.04", "2.05", "4.00"}
  BY Zenon DEF Init
<1>3. interval \in 1..StressedInterval /\ puts \in 0..MaxPuts /\ faults \in 0..MaxFaults
  BY SensorAssumption DEF Init, PoweredOn
<1> QED
  BY <1>1, <1>2, <1>3 DEF RestTypeOK

LEMMA StepTypes == RestTypeOK /\ [Next]_svars => RestTypeOK'
<1> SUFFICES ASSUME RestTypeOK, [Next]_svars PROVE RestTypeOK'
  OBVIOUS
<1> USE DEF RestTypeOK, external, bounds
<1>i. interval \in Nat
  BY SensorAssumption
<1>1. CASE \E ms \in Bodies : PutSampling(ms)
  <2>1. PICK ms \in Bodies : PutSampling(ms)
    BY <1>1
  <2>2. interval' \in 1..StressedInterval
    BY <2>1, NormalisedType, SensorAssumption DEF PutSampling, set_publish_interval_ms
  <2>3. puts' \in 0..MaxPuts
    BY <2>1, SensorAssumption DEF PutSampling
  <2> QED
    BY <2>1, <2>2, <2>3 DEF PutSampling
<1>2. CASE ApplyInterval
  BY <1>2, <1>i, TicksType, RunningType DEF ApplyInterval
<1>3. CASE WaitForNetwork
  BY <1>3, RunningType DEF WaitForNetwork
<1>4. CASE StartConnect
  BY <1>4, RunningType, DelayTypes DEF StartConnect
<1>5. CASE KeepWaiting
  BY <1>5, RunningType, DelayTypes DEF KeepWaiting
<1>6. CASE GiveUp
  BY <1>6, RunningType, DelayTypes DEF GiveUp
<1>7. CASE WaitForStack
  BY <1>7, RunningType, DelayTypes DEF WaitForStack
<1>8. CASE Publish
  BY <1>8, <1>i, TicksType, RunningType DEF Publish
<1>9. CASE GetSampling \/ IgnorePoll \/ TimerExpires \/ StackRetries \/ UNCHANGED svars
  BY <1>9 DEF GetSampling, IgnorePoll, TimerExpires, StackRetries, svars
<1>10. CASE EventConnected
  BY <1>10 DEF EventConnected
<1>11. CASE QueueDrains \/ NetworkUp
  BY <1>11 DEF QueueDrains, NetworkUp
<1>12. CASE EventDisconnected
  BY <1>12, SensorAssumption DEF EventDisconnected
<1>13. CASE QueueFills \/ NetworkDown
  <2>1. faults' \in 0..MaxFaults
    BY <1>13, SensorAssumption DEF QueueFills, NetworkDown
  <2> QED
    BY <1>13, <2>1 DEF QueueFills, NetworkDown
<1>14. CASE Reboot
  <2>1. faults' \in 0..MaxFaults /\ interval' \in 1..StressedInterval
    BY <1>14, SensorAssumption DEF Reboot
  <2> QED
    BY <1>14, <2>1, RunningType, DelayTypes DEF Reboot
<1> QED
  BY <1>1, <1>2, <1>3, <1>4, <1>5, <1>6, <1>7, <1>8, <1>9, <1>10, <1>11, <1>12, <1>13, <1>14
     DEF Next, TimerPass

(* The interval stays within the node's limits and the timer is always set *)
(* to a length, whatever the cloud asks for.                               *)
THEOREM SensorTypeCorrect == Spec => []TypeOK
<1>1. IInv /\ RestTypeOK => TypeOK
  BY DEF IInv, SensorTypeOK, RestTypeOK, TypeOK
<1> QED
  BY <1>1, InitTypes, StepTypes, InvariantHolds, PTL DEF Spec
-----------------------------------------------------------------------------
\* How much longer the length t of the timer is than ms, in thousandths of a tick.
TooLong(t, ms) == 1000 * t - ms * ClockSecond

(* Rounded up, a period of a millisecond or more is never of no ticks, and *)
(* never shorter than asked unless 16 bits cannot hold it.                 *)
LEMMA TicksRoundUp ==
    ASSUME NEW ms \in Nat, ms > 0
    PROVE  /\ Ticks(ms) \in Nat /\ Ticks(ms) > 0
           /\ Ticks(ms) = 65535 \/ TooLong(Ticks(ms), ms) \in 0..999
<1>1. PICK x \in Nat : x = ms * ClockSecond /\ x > 0
  <2>1. \A a, b \in Nat \ {0} : a * b \in Nat /\ a * b > 0
    OBVIOUS
  <2> QED
    BY <2>1, SensorAssumption
<1>2. PICK t : t = (x + 999) \div 1000
  OBVIOUS
<1>3. t \in Nat /\ t > 0 /\ 1000 * t - x \in 0..999
  BY <1>1, <1>2
<1>4. Ticks(ms) = IF t > 65535 THEN 65535 ELSE t
  BY <1>1, <1>2 DEF Ticks
<1> QED
  BY <1>1, <1>3, <1>4 DEF TooLong

\* The timer never has the length zero, at which it would expire at once,
\* again and again.
TimerTakesTime == pub_timer.length > 0

(* A connected node never publishes faster than it was told, at any clock  *)
(* rate: the period it runs is the interval or less than a tick longer, or *)
(* a delay of the connection, or all that an etimer can hold.              *)
PeriodAsAsked ==
    /\ TimerTakesTime
    /\ mqtt_state = "connected" /\ ~dirty =>
           \/ pub_timer.length \in {ReconnectDelay, ClockSecond, 65535}
           \/ TooLong(pub_timer.length, interval) \in 0..999

LEMMA InitTakesTime == Init => TimerTakesTime
<1>1. ReconnectDelay > 0
  BY SensorAssumption DEF ReconnectDelay
<1> QED
  BY <1>1, RunningLength DEF Init, PoweredOn, TimerTakesTime

LEMMA StepTakesTime == RestTypeOK /\ TimerTakesTime /\ [Next]_svars => TimerTakesTime'
<1> SUFFICES ASSUME RestTypeOK, TimerTakesTime, [Next]_svars PROVE TimerTakesTime'
  OBVIOUS
<1> USE DEF TimerTakesTime
<1>1. Ticks(interval) > 0 /\ ReconnectDelay > 0 /\ ClockSecond > 0
  <2>1. interval \in Nat /\ interval > 0
    BY SensorAssumption DEF RestTypeOK
  <2> QED
    BY <2>1, TicksRoundUp, SensorAssumption DEF ReconnectDelay
<1>2. CASE ApplyInterval \/ Publish
  BY <1>1, <1>2, RunningLength DEF ApplyInterval, Publish
<1>3. CASE WaitForNetwork
  BY <1>3, RunningLength DEF WaitForNetwork
<1>4. CASE StartConnect \/ KeepWaiting \/ GiveUp \/ Reboot
  BY <1>1, <1>4, RunningLength DEF StartConnect, KeepWaiting, GiveUp, Reboot
<1>5. CASE WaitForStack
  BY <1>1, <1>5, RunningLength DEF WaitForStack
<1>6. CASE TimerExpires
  BY <1>6 DEF TimerExpires, RestTypeOK
<1>7. CASE \/ \E ms \in Bodies : PutSampling(ms)
           \/ GetSampling \/ IgnorePoll \/ EventConnected \/ EventDisconnected
           \/ StackRetries \/ QueueFills \/ QueueDrains \/ NetworkUp \/ NetworkDown
           \/ UNCHANGED svars
  BY <1>7 DEF PutSampling, GetSampling, IgnorePoll, EventConnected, EventDisconnected,
              StackRetries, QueueFills, QueueDrains, NetworkUp, NetworkDown, svars
<1> QED
  BY <1>2, <1>3, <1>4, <1>5, <1>6, <1>7 DEF Next, TimerPass

(* The conversion of publish_interval_to_ticks never makes the process run *)
(* without a pause, nor a node publish faster than the cloud has told it   *)
(* to.                                                                     *)
THEOREM PeriodIsAlwaysAsAsked == Spec => []PeriodAsAsked
<1>1. IInv /\ RestTypeOK /\ TimerTakesTime => PeriodAsAsked
  <2> SUFFICES ASSUME IInv, RestTypeOK, TimerTakesTime, mqtt_state = "connected", ~dirty
               PROVE  \/ pub_timer.length \in {ReconnectDelay, ClockSecond, 65535}
                      \/ TooLong(pub_timer.length, interval) \in 0..999
    BY DEF PeriodAsAsked
  <2>1. interval \in Nat /\ interval > 0
    BY SensorAssumption DEF RestTypeOK
  <2>2. pub_timer.length \in {Ticks(interval), ReconnectDelay, ClockSecond}
    BY DEF IInv, CleanPeriod
  <2>3. Ticks(interval) = 65535 \/ TooLong(Ticks(interval), interval) \in 0..999
    BY <2>1, TicksRoundUp
  <2> HIDE DEF TooLong
  <2> QED
    BY <2>2, <2>3
<1> QED
  BY <1>1, InitTypes, StepTypes, InitTakesTime, StepTakesTime, InvariantHolds, PTL DEF Spec
=============================================================================
