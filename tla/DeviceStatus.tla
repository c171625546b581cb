---------------------------- MODULE DeviceStatus ----------------------------
(***************************************************************************)
(* The on/off life of a producer node (solar, wind, diesel): the status    *)
(* resource of res-status.c, the start-up timer and the telemetry of       *)
(* coap-mqtt-sensor.c, which can itself switch the device off.  The        *)
(* processes of the node are cooperative, so a handler, a timer callback   *)
(* and one publish are each one step.  A message goes out once, with QoS   *)
(* 0, and may be lost on its way to the cloud.  Readings are in tenths of  *)
(* a volt and of an ampere, as the message prints them.                    *)
(***************************************************************************)
EXTENDS Integers

CONSTANTS Builds   \* the firmwares, by what their project-conf.h defines:
                   \* on           SENSOR_DEFAULT_ON
                   \* delay        SENSOR_STARTUP_DELAY_S, in ticks; 0 compiles the warm-up out
                   \* injecting    ANOMALY_INJECT_PERCENT > 0
                   \* vbase.. irange   the range of the simulated readings

ASSUME DeviceAssumption ==
    Builds \subseteq [on : BOOLEAN, delay : Nat, injecting : BOOLEAN,
                     vbase : Nat, vrange : Nat \ {0}, ibase : Nat, irange : Nat \ {0}]

VARIABLES build,           \* the firmware on this node
          device_on, device_starting,
          startup_timer,   \* ticks until the ctimer fires, NotSet when it is not set
          activated,       \* coap_server_process has activated the resources
          reply,           \* the answer to the last request
          telemetry,       \* the last message the cloud gets
          previous,        \* history: the message it got before
          resumed,         \* history: an "on" or a boot since that last message
          lastCommand,     \* history: what last decided whether the device runs
          waited           \* history: ticks since the warm-up in progress was asked for

device   == <<device_on, device_starting, startup_timer>>
messages == <<telemetry, previous>>
history  == <<lastCommand, waited>>
dvars    == <<build, device, activated, reply, messages, resumed, history>>

DefaultOn    == build.on
StartupDelay == build.delay
Injecting    == build.injecting

NotSet   == -1
Statuses == {"ON", "STARTING", "OFF"}
Classes  == {"none", "zero", "normal", "fault"}
Messages == [reading : Classes, anomaly : BOOLEAN, status : Statuses, resumed : BOOLEAN]

NoMessage == [reading |-> "none", anomaly |-> FALSE, status |-> "OFF", resumed |-> TRUE]

Status == IF device_on THEN "ON" ELSE IF device_starting THEN "STARTING" ELSE "OFF"

\* The decision tree of detect_anomaly.h at a reading of v and i tenths.
DetectAnomaly(v, i) ==
    \/ i <= 197 /\ v <= 5
    \/ i \in 730..836 /\ v <= 0
    \/ i > 836

\* What the simulated sensor can read: base + rand % range, and a decimal.
Volts   == 10 * build.vbase .. 10 * (build.vbase + build.vrange - 1) + 9
Amperes == 10 * build.ibase .. 10 * (build.ibase + build.irange - 1) + 9

ModelAlarms == {DetectAnomaly(v, i) : v \in Volts, i \in Amperes}
-----------------------------------------------------------------------------
Init ==
    /\ build \in Builds
    /\ device_on = DefaultOn
    /\ device_starting = FALSE
    /\ startup_timer = NotSet
    /\ activated = FALSE
    /\ reply = "none"
    /\ telemetry = NoMessage /\ previous = NoMessage
    /\ resumed = TRUE
    /\ lastCommand = "boot"
    /\ waited = 0

ActivateResources ==
    /\ ~activated
    /\ activated' = TRUE
    /\ UNCHANGED <<build, device, reply, messages, resumed, history>>

\* A request that comes before the resources are active.
NotFound ==
    /\ ~activated
    /\ reply' = "4.04"
    /\ UNCHANGED <<build, device, activated, messages, resumed, history>>

GetStatus ==
    /\ activated
    /\ reply' = Status
    /\ UNCHANGED <<build, device, activated, messages, resumed, history>>

\* Slips (used by no action): "off" without the flag, or without the
\* ctimer_stop.
PutOffFlagLeft ==
    /\ activated
    /\ device_on' = FALSE /\ startup_timer' = NotSet
    /\ reply' = "OFF" /\ lastCommand' = "off" /\ waited' = 0
    /\ UNCHANGED <<build, device_starting, activated, messages, resumed>>
PutOffTimerLeft ==
    /\ activated
    /\ device_on' = FALSE /\ device_starting' = FALSE
    /\ reply' = "OFF" /\ lastCommand' = "off" /\ waited' = 0
    /\ UNCHANGED <<build, startup_timer, activated, messages, resumed>>

PutOff ==
    /\ activated
    /\ device_on' = FALSE
    /\ IF StartupDelay > 0
       THEN startup_timer' = NotSet /\ device_starting' = FALSE
       ELSE UNCHANGED <<startup_timer, device_starting>>
    /\ reply' = "OFF"
    /\ lastCommand' = "off" /\ waited' = 0
    /\ UNCHANGED <<build, activated, messages, resumed>>

\* "on" to a device that is off and warms up.
PutOnWarmUp ==
    /\ activated
    /\ StartupDelay > 0 /\ ~device_on /\ ~device_starting
    /\ device_starting' = TRUE
    /\ startup_timer' = StartupDelay
    /\ reply' = "STARTING"
    /\ lastCommand' = "on" /\ resumed' = TRUE /\ waited' = 0
    /\ UNCHANGED <<build, device_on, activated, messages>>

\* A slip: every "on" during the warm-up sets the timer again.
PutOnRestarts ==
    /\ activated
    /\ StartupDelay > 0 /\ (device_on \/ device_starting)
    /\ startup_timer' = IF device_starting THEN StartupDelay ELSE startup_timer
    /\ reply' = Status
    /\ lastCommand' = "on" /\ resumed' = TRUE
    /\ UNCHANGED <<build, device_on, device_starting, activated, messages, waited>>

\* "on" to a device that runs or warms up already: only an answer.
PutOnAgain ==
    /\ activated
    /\ StartupDelay > 0 /\ (device_on \/ device_starting)
    /\ reply' = Status
    /\ lastCommand' = "on" /\ resumed' = TRUE
    /\ UNCHANGED <<build, device, activated, messages, waited>>

\* "on" in a firmware compiled without a warm-up.
PutOnAtOnce ==
    /\ activated
    /\ StartupDelay = 0
    /\ device_on' = TRUE
    /\ reply' = "ON"
    /\ lastCommand' = "on" /\ resumed' = TRUE
    /\ UNCHANGED <<build, device_starting, startup_timer, activated, messages, waited>>

PutOn == PutOnWarmUp \/ PutOnAgain \/ PutOnAtOnce

\* An empty body, or one that begins with neither "on" nor "off".
PutInvalid ==
    /\ activated
    /\ reply' = "4.00"
    /\ UNCHANGED <<build, device, activated, messages, resumed, history>>

\* One tick of the clock that drives the ctimer; a ctimer that has run out
\* is served before the clock moves on.
Tick ==
    /\ startup_timer > 0
    /\ startup_timer' = startup_timer - 1
    /\ waited' = waited + 1
    /\ UNCHANGED <<build, device_on, device_starting, activated, reply, messages, resumed,
                   lastCommand>>

\* A slip: the callback clears the flag and leaves the device off.
StartupForgetsOn ==
    /\ startup_timer = 0
    /\ startup_timer' = NotSet
    /\ device_starting' = FALSE
    /\ UNCHANGED <<build, device_on, activated, reply, messages, resumed, history>>

StartupComplete ==
    /\ startup_timer = 0
    /\ startup_timer' = NotSet
    /\ device_starting' = FALSE
    /\ device_on' = TRUE
    /\ UNCHANGED <<build, activated, reply, messages, resumed, history>>

\* The message reaches the cloud; resumed is not sent, it dates the message.
Arrives(reading, anomaly, status) ==
    /\ telemetry' = [reading |-> reading, anomaly |-> anomaly, status |-> status,
                      resumed |-> resumed]
    /\ previous' = telemetry
    /\ resumed' = FALSE

\* mqtt_publish fails, which is only logged, or the connection breaks.
Lost == UNCHANGED <<messages, resumed>>

\* Slips: the shutdown before the message is built, no shutdown, and a
\* shutdown only if the message can be sent.
PublishAfterShutdown(reading, anomaly) ==
    /\ \/ Lost
       \/ Arrives(IF anomaly THEN "zero" ELSE reading, anomaly,
                  IF anomaly THEN "OFF" ELSE Status)
    /\ device_on' = (device_on /\ ~anomaly)
    /\ lastCommand' = IF anomaly THEN "fault" ELSE lastCommand
    /\ UNCHANGED <<build, device_starting, startup_timer, activated, reply, waited>>
PublishNoShutdown(reading, anomaly) ==
    /\ Arrives(reading, anomaly, Status) \/ Lost
    /\ lastCommand' = IF anomaly THEN "fault" ELSE lastCommand
    /\ UNCHANGED <<build, device, activated, reply, waited>>
PublishShutdownIfSent(reading, anomaly) ==
    /\ \/ Lost /\ UNCHANGED device_on
       \/ Arrives(reading, anomaly, Status) /\ device_on' = (device_on /\ ~anomaly)
    /\ lastCommand' = IF anomaly THEN "fault" ELSE lastCommand
    /\ UNCHANGED <<build, device_starting, startup_timer, activated, reply, waited>>

\* publish_telemetry: the message is complete before an anomaly switches
\* the device off, and the device is switched off also when it is lost.
Publish(reading, anomaly) ==
    /\ Arrives(reading, anomaly, Status) \/ Lost
    /\ device_on' = (device_on /\ ~anomaly)
    /\ lastCommand' = IF anomaly THEN "fault" ELSE lastCommand
    /\ UNCHANGED <<build, device_starting, startup_timer, activated, reply, waited>>

PublishIdle    == ~device_on /\ Publish("zero", FALSE)
PublishReading == device_on /\ \E alarm \in ModelAlarms : Publish("normal", alarm)
PublishFault   == device_on /\ Injecting /\ Publish("fault", TRUE)

publish_telemetry == PublishIdle \/ PublishReading \/ PublishFault

Reboot ==
    /\ device_on' = DefaultOn
    /\ device_starting' = FALSE
    /\ startup_timer' = NotSet
    /\ activated' = FALSE
    /\ lastCommand' = "boot" /\ resumed' = TRUE /\ waited' = 0
    /\ UNCHANGED <<build, reply, messages>>

Next ==
    \/ ActivateResources \/ NotFound \/ GetStatus
    \/ PutOff \/ PutOnWarmUp \/ PutOnAgain \/ PutOnAtOnce \/ PutInvalid
    \/ Tick \/ StartupComplete
    \/ PublishIdle \/ PublishReading \/ PublishFault
    \/ Reboot

\* Timers run out, and a node that goes on publishing is heard again and
\* again: it reconnects after every break (PublishesForever of MqttSensor).
Fairness ==
    /\ WF_dvars(Tick)
    /\ WF_dvars(StartupComplete)
    /\ WF_dvars((PublishIdle \/ PublishReading) /\ ~Lost)

Spec == Init /\ [][Next]_dvars /\ Fairness
-----------------------------------------------------------------------------
TypeOK ==
    /\ build \in Builds
    /\ device_on \in BOOLEAN
    /\ device_starting \in BOOLEAN
    /\ startup_timer \in NotSet .. StartupDelay
    /\ activated \in BOOLEAN
    /\ reply \in Statuses \cup {"none", "4.00", "4.04"}
    /\ telemetry \in Messages /\ previous \in Messages
    /\ resumed \in BOOLEAN
    /\ lastCommand \in {"boot", "on", "off", "fault"}
    /\ waited \in 0..StartupDelay

(* Two globals and a timer spell one state: the device is starting exactly *)
(* while the timer is set, and never starting and on at once.              *)
WarmupConsistent ==
    /\ device_starting <=> startup_timer # NotSet
    /\ ~(device_on /\ device_starting)

(* An "off" or a published fault is final until an "on" or a power cycle:  *)
(* no timer left behind by an earlier "on" may switch the device back on.  *)
OffSticks ==
    lastCommand \in {"off", "fault"} =>
        ~device_on /\ ~device_starting /\ startup_timer = NotSet

(* The generator runs after a whole warm-up counted from the first "on":   *)
(* repeating "on" neither shortens nor restarts it (project-conf.h:12).    *)
FullWarmup ==
    /\ device_starting => waited + startup_timer = StartupDelay
    /\ device_on /\ ~DefaultOn => waited = StartupDelay

(* The message of an anomaly carries the faulty reading and status ON; a   *)
(* device that is off or starting reports zeros and never an anomaly       *)
(* (coap-mqtt-sensor.c:455-457).                                           *)
FaultCarriesContext ==
    /\ telemetry.anomaly => telemetry.reading = "fault" /\ telemetry.status = "ON"
    /\ telemetry.reading = "zero" <=> telemetry.status # "ON"
                                      /\ telemetry.reading # "none"

(* What the cloud sees of a fault: one message with the fault, and after   *)
(* it zeros with status OFF until an "on" or a power cycle comes between   *)
(* (coap-mqtt-sensor.c:501-502), whatever messages are lost.               *)
FaultThenOff ==
    previous.anomaly /\ ~telemetry.resumed =>
        telemetry.reading = "zero" /\ telemetry.status = "OFF"

(* An accepted "on" ends with the device running, unless something else    *)
(* decides otherwise first.                                                *)
OnTakesEffect ==
    (lastCommand = "on" /\ ~device_on) ~> (device_on \/ lastCommand # "on")

(* A fault whose only message is lost still shows: unless someone switches *)
(* the device or power-cycles it first, what the cloud sees of it in the   *)
(* end is OFF, never the ON of before the fault.                           *)
FaultShows ==
    lastCommand = "fault" ~> (telemetry.status = "OFF" \/ lastCommand # "fault")

(* Seen from outside, through Status and the timer, the node is a          *)
(* Generator: nothing but a start, a stop, the passing of a full warm-up,  *)
(* a fault or a power cycle changes what it does.                          *)
Gen == INSTANCE Generator WITH
           Delay <- StartupDelay, OnAtBoot <- DefaultOn,
           gen <- Status, remaining <- startup_timer

ImplementsGenerator == Gen!Spec
=============================================================================
