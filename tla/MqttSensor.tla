----------------------------- MODULE MqttSensor -----------------------------
(***************************************************************************)
(* The MQTT process of a producer node and the publish interval the cloud  *)
(* steers over CoAP: mqtt_sensor_process and mqtt_event_handler of         *)
(* coap-mqtt-sensor.c, sampling_control.c and res-sampling.c.  Processes   *)
(* are cooperative: one pass of the process loop, one event callback and   *)
(* one handler are each one step.  The MQTT library and the network are    *)
(* external.  Time is not counted; a timer has the length it was set to    *)
(* and, some time later, has expired.                                      *)
(***************************************************************************)
EXTENDS Integers

CONSTANTS DefaultInterval,    \* MQTT_PUBLISH_INTERVAL_MS
          StressedInterval,   \* MQTT_PUBLISH_INTERVAL_STRESSED_MS, the largest accepted
          ClockSecond,        \* CLOCK_SECOND, ticks in a second
          Bodies,             \* the intervals a PUT may ask for; 0 stands for no number
          MaxPuts,            \* bound: PUTs in a behaviour
          MaxFaults           \* bound: disconnections, refusals, outages and reboots

ASSUME SensorAssumption ==
    /\ DefaultInterval \in Nat \ {0} /\ StressedInterval \in Nat \ {0}
    /\ DefaultInterval <= StressedInterval
    /\ ClockSecond \in Nat \ {0}
    /\ Bodies \subseteq Nat
    /\ MaxPuts \in Nat /\ MaxFaults \in Nat

VARIABLES mqtt_state, connect_attempts,
          pub_timer,   \* the etimer: its length in ticks and whether it has expired
          interval,    \* current_publish_interval_ms
          dirty,       \* publish_interval_dirty
          poll,        \* the process has been polled and has not run since
          conn,        \* external: the connection of the MQTT library
          ready,       \* external: mqtt_ready, the output queue has room
          net,         \* external: have_connectivity
          reply,       \* the answer to the last request on actuators/sampling
          puts, faults \* how much of the two bounds is used

external == <<conn, ready, net>>
bounds   == <<puts, faults>>
svars    == <<mqtt_state, connect_attempts, pub_timer, interval, dirty, poll, external,
              reply, bounds>>

MaxAttempts == 4

\* publish_interval_to_ticks: rounded up, at most 16 bits.
Ticks(ms) ==
    LET ticks == (ms * ClockSecond + 999) \div 1000
    IN  IF ticks > 65535 THEN 65535 ELSE ticks

ReconnectDelay == 5 * ClockSecond
Running(ticks) == [length |-> ticks, expired |-> FALSE]
-----------------------------------------------------------------------------
PoweredOn ==
    /\ mqtt_state = "init" /\ connect_attempts = 0
    /\ pub_timer = Running(ReconnectDelay)
    /\ interval = DefaultInterval /\ dirty = FALSE
    /\ poll = FALSE
    /\ conn = "idle"

Init ==
    /\ PoweredOn
    /\ ready = TRUE /\ net = FALSE /\ reply = "none"
    /\ puts = 0 /\ faults = 0

(* ---- res-sampling.c and sampling_control.c ---- *)

Accepted(ms) == ms \in 1..60000

\* A slip: no upper clamp.
NormalisedUnclamped(ms) == IF ms = 0 THEN DefaultInterval ELSE ms

Normalised(ms) ==
    IF ms = 0 THEN DefaultInterval
    ELSE IF ms > StressedInterval THEN StressedInterval
    ELSE ms

set_publish_interval_ms(ms) ==
    IF Normalised(ms) = interval
    THEN UNCHANGED <<interval, dirty, poll>>
    ELSE interval' = Normalised(ms) /\ dirty' = TRUE /\ poll' = TRUE

PutSampling(ms) ==
    /\ net /\ puts < MaxPuts
    /\ puts' = puts + 1
    /\ IF Accepted(ms)
       THEN set_publish_interval_ms(ms) /\ reply' = "2.04"
       ELSE UNCHANGED <<interval, dirty, poll>> /\ reply' = "4.00"
    /\ UNCHANGED <<mqtt_state, connect_attempts, pub_timer, external, faults>>

GetSampling ==
    /\ net
    /\ reply' = "2.05"
    /\ UNCHANGED <<mqtt_state, connect_attempts, pub_timer, interval, dirty, poll, external,
                   bounds>>

(* ---- mqtt_sensor_process ---- *)

Applicable == dirty /\ mqtt_state = "connected"

\* A slip: the flag is left raised.
ApplyKeepsDirty ==
    /\ poll /\ Applicable
    /\ poll' = FALSE
    /\ pub_timer' = Running(Ticks(interval))
    /\ UNCHANGED <<mqtt_state, connect_attempts, interval, dirty, external, reply, bounds>>

\* A poll that finds a new interval to apply re-arms the timer, and the
\* timer is then not expired for the rest of the pass.
ApplyInterval ==
    /\ poll /\ Applicable
    /\ poll' = FALSE /\ dirty' = FALSE
    /\ pub_timer' = Running(Ticks(interval))
    /\ UNCHANGED <<mqtt_state, connect_attempts, interval, external, reply, bounds>>

\* A poll with nothing to do.
IgnorePoll ==
    /\ poll /\ ~Applicable /\ ~pub_timer.expired
    /\ poll' = FALSE
    /\ UNCHANGED <<mqtt_state, connect_attempts, pub_timer, interval, dirty, external, reply,
                   bounds>>

\* The process runs with its timer expired: woken by the timer event, or by
\* a poll that had no interval to apply.
WokenExpired ==
    /\ pub_timer.expired
    /\ \/ poll' = poll
       \/ poll /\ ~Applicable /\ poll' = FALSE

\* etimer_reset keeps the length.
WaitForNetwork ==
    /\ WokenExpired /\ ~net
    /\ pub_timer' = Running(pub_timer.length)
    /\ UNCHANGED <<mqtt_state, connect_attempts, interval, dirty, external, reply, bounds>>

\* mqtt_connect does nothing when the library is at it already.
StartConnect ==
    /\ WokenExpired /\ net
    /\ mqtt_state \in {"init", "disconnected"}
    /\ connect_attempts' = 0
    /\ conn' = IF conn = "idle" THEN "trying" ELSE conn
    /\ mqtt_state' = "connecting"
    /\ pub_timer' = Running(ReconnectDelay)
    /\ UNCHANGED <<interval, dirty, ready, net, reply, bounds>>

KeepWaiting ==
    /\ WokenExpired /\ net
    /\ mqtt_state = "connecting" /\ connect_attempts + 1 < MaxAttempts
    /\ connect_attempts' = connect_attempts + 1
    /\ pub_timer' = Running(ReconnectDelay)
    /\ UNCHANGED <<mqtt_state, interval, dirty, external, reply, bounds>>

\* mqtt_disconnect may or may not stop a connection under way.
GiveUp ==
    /\ WokenExpired /\ net
    /\ mqtt_state = "connecting" /\ connect_attempts + 1 >= MaxAttempts
    /\ connect_attempts' = connect_attempts + 1
    /\ conn' \in {conn, "idle"}
    /\ mqtt_state' = "disconnected"
    /\ pub_timer' = Running(ReconnectDelay)
    /\ UNCHANGED <<interval, dirty, ready, net, reply, bounds>>

WaitForStack ==
    /\ WokenExpired /\ net
    /\ mqtt_state = "connected" /\ ~ready
    /\ pub_timer' = Running(ClockSecond)
    /\ UNCHANGED <<mqtt_state, connect_attempts, interval, dirty, external, reply, bounds>>

\* A slip: the timer is set to milliseconds where it takes ticks.
PublishMilliseconds ==
    /\ WokenExpired /\ net
    /\ mqtt_state = "connected" /\ ready
    /\ pub_timer' = Running(interval)
    /\ UNCHANGED <<mqtt_state, connect_attempts, interval, dirty, external, reply, bounds>>

\* publish_telemetry, whose effects on the device are those of DeviceStatus.
Publish ==
    /\ WokenExpired /\ net
    /\ mqtt_state = "connected" /\ ready
    /\ pub_timer' = Running(Ticks(interval))
    /\ UNCHANGED <<mqtt_state, connect_attempts, interval, dirty, external, reply, bounds>>

TimerExpires ==
    /\ ~pub_timer.expired
    /\ pub_timer' = [pub_timer EXCEPT !.expired = TRUE]
    /\ UNCHANGED <<mqtt_state, connect_attempts, interval, dirty, poll, external, reply, bounds>>

(* ---- mqtt_event_handler, called by the library ---- *)

\* Slips: no poll on a connection, a connection ignored after giving up.
EventConnectedNoPoll ==
    /\ conn = "trying" /\ net
    /\ conn' = "up" /\ mqtt_state' = "connected" /\ connect_attempts' = 0
    /\ UNCHANGED <<pub_timer, interval, dirty, poll, ready, net, reply, bounds>>
EventConnectedIfAsked ==
    /\ conn = "trying" /\ net
    /\ conn' = "up" /\ poll' = TRUE
    /\ IF mqtt_state = "connecting"
       THEN mqtt_state' = "connected" /\ connect_attempts' = 0
       ELSE UNCHANGED <<mqtt_state, connect_attempts>>
    /\ UNCHANGED <<pub_timer, interval, dirty, ready, net, reply, bounds>>

\* The connection is up, also when the process gave up on it meanwhile.
EventConnected ==
    /\ conn = "trying" /\ net
    /\ conn' = "up"
    /\ mqtt_state' = "connected"
    /\ connect_attempts' = 0
    /\ poll' = TRUE
    /\ UNCHANGED <<pub_timer, interval, dirty, ready, net, reply, bounds>>

EventDisconnected ==
    /\ conn \in {"trying", "up"} /\ faults < MaxFaults
    /\ conn' = "idle"
    /\ faults' = faults + 1
    /\ mqtt_state' = "disconnected"
    /\ poll' = TRUE
    /\ UNCHANGED <<connect_attempts, pub_timer, interval, dirty, ready, net, reply, puts>>

(* ---- the MQTT library, the broker and the network ---- *)

\* The library reconnects on its own once it has been asked to connect.
StackRetries ==
    /\ conn = "idle" /\ mqtt_state # "init"
    /\ conn' = "trying"
    /\ UNCHANGED <<mqtt_state, connect_attempts, pub_timer, interval, dirty, poll, ready, net,
                   reply, bounds>>

QueueFills ==
    /\ ready /\ conn = "up" /\ faults < MaxFaults
    /\ ready' = FALSE /\ faults' = faults + 1
    /\ UNCHANGED <<mqtt_state, connect_attempts, pub_timer, interval, dirty, poll, conn, net,
                   reply, puts>>

QueueDrains ==
    /\ ~ready
    /\ ready' = TRUE
    /\ UNCHANGED <<mqtt_state, connect_attempts, pub_timer, interval, dirty, poll, conn, net,
                   reply, bounds>>

NetworkUp ==
    /\ ~net
    /\ net' = TRUE
    /\ UNCHANGED <<mqtt_state, connect_attempts, pub_timer, interval, dirty, poll, conn, ready,
                   reply, bounds>>

NetworkDown ==
    /\ net /\ faults < MaxFaults
    /\ net' = FALSE /\ faults' = faults + 1
    /\ UNCHANGED <<mqtt_state, connect_attempts, pub_timer, interval, dirty, poll, conn, ready,
                   reply, puts>>

Reboot ==
    /\ faults < MaxFaults
    /\ faults' = faults + 1
    /\ mqtt_state' = "init" /\ connect_attempts' = 0
    /\ pub_timer' = Running(ReconnectDelay)
    /\ interval' = DefaultInterval /\ dirty' = FALSE
    /\ poll' = FALSE
    /\ conn' = "idle" /\ ready' = TRUE /\ net' = FALSE
    /\ UNCHANGED <<reply, puts>>
-----------------------------------------------------------------------------
TimerPass == WaitForNetwork \/ StartConnect \/ KeepWaiting \/ GiveUp \/ WaitForStack \/ Publish

Next ==
    \/ \E ms \in Bodies : PutSampling(ms)
    \/ GetSampling
    \/ ApplyInterval \/ IgnorePoll \/ TimerPass
    \/ TimerExpires
    \/ EventConnected \/ EventDisconnected
    \/ StackRetries \/ QueueFills \/ QueueDrains \/ NetworkUp \/ NetworkDown
    \/ Reboot

\* The scheduler serves polls first and every process in turn; timers run
\* out; the queue drains and the network returns; a broker that is asked
\* again and again answers once.
Fairness ==
    /\ WF_svars(ApplyInterval) /\ WF_svars(TimerPass) /\ WF_svars(TimerExpires)
    /\ WF_svars(QueueDrains) /\ WF_svars(NetworkUp)
    /\ SF_svars(EventConnected)

Spec == Init /\ [][Next]_svars /\ Fairness
-----------------------------------------------------------------------------
TypeOK ==
    /\ mqtt_state \in {"init", "connecting", "connected", "disconnected"}
    /\ connect_attempts \in 0..MaxAttempts
    /\ pub_timer \in [length : Nat, expired : BOOLEAN]
    /\ interval \in 1..StressedInterval
    /\ dirty \in BOOLEAN /\ poll \in BOOLEAN
    /\ conn \in {"idle", "trying", "up"} /\ ready \in BOOLEAN /\ net \in BOOLEAN
    /\ reply \in {"none", "2.04", "2.05", "4.00"}
    /\ puts \in 0..MaxPuts /\ faults \in 0..MaxFaults

(* The process believes it is connected exactly when the library is: a     *)
(* CONNACK that arrives after the process gave up on it, or a break during *)
(* the wait, cannot leave the two apart.                                   *)
StateTracksConnection == mqtt_state = "connected" <=> conn = "up"

(* An accepted interval is never forgotten: while it waits to be applied,  *)
(* the node is either not connected or has a poll pending that applies it, *)
(* although every poll before the connection is consumed without effect.   *)
NoLostInterval == dirty /\ mqtt_state = "connected" => poll

(* Once applied, the interval is the one the timer runs: a connected node  *)
(* never goes on with the period of an earlier interval.                   *)
PeriodInEffect ==
    mqtt_state = "connected" /\ ~dirty =>
        pub_timer.length \in {Ticks(interval), ReconnectDelay, ClockSecond}

(* The fourth timeout of a connection gives it up: the counter never grows *)
(* past 4 and a node that waits has attempts left.                         *)
AttemptsLeft == mqtt_state = "connecting" => connect_attempts < MaxAttempts

(* After the last fault the node connects and goes on publishing.          *)
PublishesForever == []<><<Publish>>_svars

(* Every accepted interval is applied in the end, also one that came while *)
(* the node was not connected.                                             *)
IntervalApplied == dirty ~> ~dirty
=============================================================================
