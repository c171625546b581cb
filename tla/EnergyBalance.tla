--------------------------- MODULE EnergyBalance ---------------------------
(***************************************************************************)
(* The energy balance of the cloud (energy_state.py) together with the two *)
(* nodes it acts on: the battery, whole, and the diesel generator, as the  *)
(* Generator its firmware implements.                                      *)
(*                                                                         *)
(* A cycle of balance_loop awaits up to three CoAP exchanges: the GET of   *)
(* the battery state, a PUT of the diesel status when the dispatch         *)
(* changes, a PUT of the energy of the cycle.  Between two awaits the      *)
(* coroutine runs alone; everything else happens while it waits.  A power  *)
(* is counted in the units of capacity it moves in one cycle.              *)
(***************************************************************************)
EXTENDS Integers

CONSTANTS MaxCapacity, StartCapacity, LockPct, UnlockPct, ReportUnit,
          Delay,                    \* warm-up of the diesel, in ticks
          MaxCharge, MaxDischarge,  \* MAX_CHARGE_W, MAX_DISCHARGE_W
          DispatchPct, RecoverPct,  \* DIESEL_DISPATCH_SOC, DIESEL_RECOVER_SOC
          Surpluses,                \* renewable production minus load
          DieselPower,              \* what the diesel produces when it runs
          Faults,                   \* the kinds of fault that may happen
          MaxFaults                 \* bound: faults in a behaviour

FaultKinds == {"request", "batteryResponse", "statusResponse", "repeat", "removal",
               "registration", "telemetry", "batteryReboot", "dieselReboot",
               "cloudRestart", "operator"}

ASSUME BalanceAssumption ==
    /\ MaxCapacity \in Nat \ {0} /\ ReportUnit \in Nat \ {0}
    /\ LockPct \in 1..100 /\ UnlockPct \in 0..100 /\ UnlockPct < LockPct
    /\ StartCapacity \in 0..MaxCapacity
    /\ 100 * StartCapacity < LockPct * MaxCapacity
    /\ Delay \in Nat
    /\ MaxCharge \in Nat /\ MaxDischarge \in Nat
    /\ DispatchPct \in Nat /\ RecoverPct \in Nat /\ DispatchPct <= RecoverPct
    /\ Surpluses \subseteq Int
    /\ DieselPower \in Nat
    /\ Faults \subseteq FaultKinds /\ MaxFaults \in Nat

VARIABLES charged_capacity, charging_locked, override_active, activated, reply, \* Battery
          gen, remaining,   \* Generator
          pc,               \* where balance_loop is: sleep, soc, status or adjust
          exchange,         \* its CoAP exchange: none, request, response or failed
          surplus, total,   \* renewable_surplus_w and total_surplus_w of the cycle
          should_run,       \* the dispatch decided in this cycle
          dispatched,       \* _diesel_dispatched
          reading,          \* power in the last fresh telemetry of the diesel
          registered,       \* the node registry
          unannounced,      \* nodes that have booted and not yet posted /register
          spent,            \* how much of MaxFaults is used
          suffered          \* history: the kinds of fault there have been

battery  == <<charged_capacity, charging_locked, override_active, activated, reply>>
diesel   == <<gen, remaining>>
cycle    == <<pc, exchange, surplus, total, should_run>>
registry == <<registered, unannounced>>
faults   == <<spent, suffered>>
evars    == <<battery, diesel, cycle, dispatched, reading, registry, faults>>

Nodes == {"battery", "diesel"}

Deltas == -MaxDischarge .. MaxCharge

B == INSTANCE Battery WITH MaxDelta <- MaxCharge, ServedPaths <- {"actuators/battery"}
G == INSTANCE Generator WITH OnAtBoot <- FALSE

Fault(kind) ==
    /\ kind \in Faults /\ spent < MaxFaults
    /\ spent' = spent + 1 /\ suffered' = suffered \cup {kind}

Init ==
    /\ B!Init /\ G!Init
    /\ pc = "sleep" /\ exchange = "none"
    /\ surplus = 0 /\ total = 0 /\ should_run = FALSE
    /\ dispatched = FALSE
    /\ reading = 0
    /\ registered = {} /\ unannounced = Nodes
    /\ spent = 0 /\ suffered = {}
-----------------------------------------------------------------------------
(* ---- balance_loop ---- *)

\* What _power_by_types({DIESEL_TYPE}) makes of the last reading.
DieselReading == IF "diesel" \in registered THEN reading ELSE 0

\* A slip: no limit on the charging power.
DeltaUnlimited(t) ==
    IF t > 0 THEN t
    ELSE IF -t > MaxDischarge THEN -MaxDischarge ELSE t

\* The energy of the cycle, within the power limits of the battery.
Delta(t) ==
    IF t > 0
    THEN IF t > MaxCharge THEN MaxCharge ELSE t
    ELSE IF -t > MaxDischarge THEN -MaxDischarge ELSE t

EndCycle == pc' = "sleep" /\ exchange' = "none" /\ surplus' = 0 /\ total' = 0

\* The three calls of coap_client.py the loop awaits.
get_battery_state == pc' = "soc" /\ exchange' = "request"
set_status        == pc' = "status" /\ exchange' = "request"
adjust_battery    == pc' = "adjust" /\ exchange' = "request"

\* The rest of the cycle once the dispatch is settled.
Adjust ==
    IF Delta(total) # 0
    THEN adjust_battery /\ UNCHANGED <<surplus, total>>
    ELSE EndCycle

\* After the sleep: the powers of the cycle, then the battery is asked.
Wake ==
    /\ pc = "sleep" /\ "battery" \in registered
    /\ \E s \in Surpluses : surplus' = s /\ total' = s + DieselReading
    /\ get_battery_state
    /\ should_run' = dispatched
    /\ UNCHANGED <<battery, diesel, dispatched, reading, registry, faults>>

\* The state of charge of a GET, in report units, against a percentage.
Below(r, pct) == 100 * r < pct * B!Reported(MaxCapacity)
Above(r, pct) == 100 * r > pct * B!Reported(MaxCapacity)

\* Slips: the two thresholds are one, the generator runs on until the
\* renewables cover the load, it starts only when the battery cannot.
DispatchOneThreshold(r) ==
    IF dispatched THEN ~Above(r, DispatchPct) ELSE Below(r, DispatchPct) /\ surplus < 0
DispatchUntilSurplus(r) ==
    IF dispatched THEN ~(Above(r, RecoverPct) /\ surplus >= 0)
                  ELSE Below(r, DispatchPct) /\ surplus < 0
DispatchTooLate(r) ==
    IF dispatched THEN ~Above(r, RecoverPct)
                  ELSE Below(r, DispatchPct) /\ surplus < -MaxDischarge

\* _update_diesel_dispatch at a known state of charge.
Dispatch(r) ==
    IF dispatched THEN ~Above(r, RecoverPct) ELSE Below(r, DispatchPct) /\ surplus < 0

SocKnown == exchange = "response" /\ reply.code = "2.05"

\* The state of charge is there (or not) and the dispatch changes.
CommandDiesel ==
    /\ pc = "soc" /\ SocKnown
    /\ "diesel" \in registered
    /\ Dispatch(reply.charged) # dispatched
    /\ should_run' = Dispatch(reply.charged)
    /\ set_status
    /\ UNCHANGED <<battery, diesel, surplus, total, dispatched, reading, registry, faults>>

KeepDispatch ==
    /\ pc = "soc" /\ exchange \in {"response", "failed"}
    /\ ~SocKnown \/ "diesel" \notin registered \/ Dispatch(reply.charged) = dispatched
    /\ Adjust
    /\ UNCHANGED <<battery, diesel, should_run, dispatched, reading, registry, faults>>

\* Any response counts as done, an exception leaves the dispatch as it was.
StatusAnswered ==
    /\ pc = "status" /\ exchange = "response"
    /\ dispatched' = should_run
    /\ Adjust
    /\ UNCHANGED <<battery, diesel, should_run, reading, registry, faults>>

\* A slip: the dispatch is recorded before the exchange, not after it.
StatusFailedRecorded ==
    /\ pc = "status" /\ exchange = "failed"
    /\ dispatched' = should_run
    /\ Adjust
    /\ UNCHANGED <<battery, diesel, should_run, reading, registry, faults>>

StatusFailed ==
    /\ pc = "status" /\ exchange = "failed"
    /\ Adjust
    /\ UNCHANGED <<battery, diesel, should_run, dispatched, reading, registry, faults>>

\* 2.04, 4.03 and every error end the cycle alike.
AdjustDone ==
    /\ pc = "adjust" /\ exchange \in {"response", "failed"}
    /\ EndCycle
    /\ UNCHANGED <<battery, diesel, should_run, dispatched, reading, registry, faults>>

(* ---- the nodes answer ---- *)

BatteryAnswers ==
    /\ exchange = "request"
    /\ \/ pc = "soc" /\ B!GetBattery
       \/ pc = "adjust" /\ B!PutBattery(Delta(total))
       \/ pc \in {"soc", "adjust"} /\ B!NotFound(B!BatteryPath)
    /\ exchange' = "response"
    /\ UNCHANGED <<diesel, pc, surplus, total, should_run, dispatched, reading, registry, faults>>

\* "on" to a generator that is not off, and "off" to one that is, only
\* repeat what it does.
Switch(on) ==
    IF on
    THEN G!Start \/ (gen # "OFF" /\ UNCHANGED diesel)
    ELSE G!Stop

DieselAnswers ==
    /\ pc = "status" /\ exchange = "request"
    /\ Switch(should_run)
    /\ exchange' = "response"
    /\ UNCHANGED <<battery, pc, surplus, total, should_run, dispatched, reading, registry, faults>>

\* A node that has just booted has no resources yet and answers 4.04.
DieselNotFound ==
    /\ pc = "status" /\ exchange = "request" /\ "diesel" \in unannounced
    /\ exchange' = "response"
    /\ UNCHANGED <<battery, diesel, pc, surplus, total, should_run, dispatched, reading,
                   registry, faults>>

(* ---- what happens while the loop waits ---- *)

BatteryActivates ==
    /\ B!ActivateResources
    /\ UNCHANGED <<diesel, cycle, dispatched, reading, registry, faults>>

\* The one POST to /register that follows a boot.
Register(n) ==
    /\ n \in unannounced
    /\ n = "battery" => activated # {}
    /\ registered' = registered \cup {n}
    /\ unannounced' = unannounced \ {n}
    /\ UNCHANGED <<battery, diesel, cycle, dispatched, reading, faults>>

DieselWarmsUp ==
    /\ G!Tick \/ G!Ready
    /\ UNCHANGED <<battery, cycle, dispatched, reading, registry, faults>>

\* publish_telemetry of the diesel reaches update_reading.
DieselPublishes ==
    /\ reading' = IF gen = "ON" THEN DieselPower ELSE 0
    /\ UNCHANGED <<battery, diesel, cycle, dispatched, registry, faults>>

(* ---- faults ---- *)

LoseRequest ==
    /\ Fault("request")
    /\ exchange = "request" /\ exchange' = "failed"
    /\ UNCHANGED <<battery, diesel, pc, surplus, total, should_run, dispatched, reading, registry>>

LoseResponse ==
    /\ \/ pc \in {"soc", "adjust"} /\ Fault("batteryResponse")
       \/ pc = "status" /\ Fault("statusResponse")
    /\ exchange = "response" /\ exchange' = "failed"
    /\ UNCHANGED <<battery, diesel, pc, surplus, total, should_run, dispatched, reading, registry>>

\* The response is lost and the retransmitted request handled once more.
Retransmit ==
    /\ Fault("repeat")
    /\ exchange = "response" /\ exchange' = "request"
    /\ UNCHANGED <<battery, diesel, pc, surplus, total, should_run, dispatched, reading, registry>>

\* A probe of the heartbeat that got no answer in 3 s.
Remove(n) ==
    /\ Fault("removal")
    /\ n \in registered /\ registered' = registered \ {n}
    /\ UNCHANGED <<battery, diesel, cycle, dispatched, reading, unannounced>>

RegistrationLost(n) ==
    /\ Fault("registration")
    /\ n \in unannounced /\ unannounced' = unannounced \ {n}
    /\ UNCHANGED <<battery, diesel, cycle, dispatched, reading, registered>>

\* No telemetry of the diesel for stale_after_s.
ReadingGoesStale ==
    /\ Fault("telemetry")
    /\ reading # 0 /\ reading' = 0
    /\ UNCHANGED <<battery, diesel, cycle, dispatched, registry>>

BatteryReboots ==
    /\ Fault("batteryReboot")
    /\ B!Reboot
    /\ unannounced' = unannounced \cup {"battery"}
    /\ UNCHANGED <<diesel, cycle, dispatched, reading, registered>>

DieselReboots ==
    /\ Fault("dieselReboot")
    /\ G!PowerCycle
    /\ unannounced' = unannounced \cup {"diesel"}
    /\ UNCHANGED <<battery, cycle, dispatched, reading, registered>>

\* Registry, readings and dispatch live in memory only.
CloudRestarts ==
    /\ Fault("cloudRestart")
    /\ registered' = {} /\ dispatched' = FALSE /\ reading' = 0
    /\ EndCycle /\ should_run' = FALSE
    /\ UNCHANGED <<battery, diesel, unannounced>>

\* An operator switches the diesel through the status resource of the cloud.
OperatorSwitches ==
    /\ Fault("operator")
    /\ "diesel" \in registered
    /\ \E on \in BOOLEAN : Switch(on)
    /\ UNCHANGED <<battery, cycle, dispatched, reading, registry>>
-----------------------------------------------------------------------------
CloudStep == \/ Wake \/ CommandDiesel \/ KeepDispatch
             \/ StatusAnswered \/ StatusFailed \/ AdjustDone

NodeStep == BatteryAnswers \/ DieselAnswers \/ DieselNotFound

FaultStep == \/ LoseRequest \/ LoseResponse \/ Retransmit
             \/ \E n \in Nodes : Remove(n) \/ RegistrationLost(n)
             \/ ReadingGoesStale \/ BatteryReboots \/ DieselReboots
             \/ CloudRestarts \/ OperatorSwitches

Next == \/ CloudStep \/ NodeStep
        \/ BatteryActivates \/ DieselWarmsUp \/ DieselPublishes
        \/ \E n \in Nodes : Register(n)
        \/ FaultStep

\* The event loop runs every coroutine that can run, nodes answer what
\* reaches them, boot, register, warm up and publish.
Fairness ==
    /\ WF_evars(CloudStep) /\ WF_evars(NodeStep)
    /\ WF_evars(BatteryActivates) /\ WF_evars(DieselWarmsUp) /\ WF_evars(DieselPublishes)
    /\ \A n \in Nodes : WF_evars(Register(n))

Spec == Init /\ [][Next]_evars /\ Fairness
-----------------------------------------------------------------------------
TypeOK ==
    /\ B!TypeOK
    /\ gen \in {"OFF", "STARTING", "ON"} /\ remaining \in G!Cold .. Delay
    /\ pc \in {"sleep", "soc", "status", "adjust"}
    /\ exchange \in {"none", "request", "response", "failed"}
    /\ exchange = "none" <=> pc = "sleep"
    /\ surplus \in Surpluses \cup {0}
    /\ total \in {s + p : s \in Surpluses \cup {0}, p \in {0, DieselPower}}
    /\ should_run \in BOOLEAN /\ dispatched \in BOOLEAN
    /\ reading \in {0, DieselPower}
    /\ registered \subseteq Nodes /\ unannounced \subseteq Nodes
    /\ spent \in 0..MaxFaults /\ suffered \subseteq Faults

(* The battery stays protected from its own cloud: the charge never passes *)
(* the lock threshold by a whole cycle at full charging power, whatever is *)
(* lost, repeated or restarted.                                            *)
BatteryProtected ==
    100 * charged_capacity < LockPct * MaxCapacity + 100 * MaxCharge

\* Faults after which the memory of the cloud is not to be trusted: a PUT of
\* the status handled and not acknowledged, a state lost, another hand.
Estranged == suffered \cap {"statusResponse", "repeat", "dieselReboot", "cloudRestart",
                            "operator"} # {}

(* Unless so estranged, the dispatch the cloud remembers is what the       *)
(* generator does, whenever the loop sleeps.                               *)
DispatchAgrees == ~Estranged /\ pc = "sleep" => (dispatched <=> gen # "OFF")

\* The charge as far as a report, rounded to ReportUnit, can tell.
HalfUnit == 100 * ReportUnit
Full     == B!Reported(MaxCapacity) * ReportUnit

(* The generator starts only on a charge below 20%, and stops only on one  *)
(* above 40%, give or take half a report unit: the battery itself, not the *)
(* report the cloud holds, which is older by one exchange (README.md:214). *)
(* A node that loses its state and an operator do as they please.          *)
StartsLowStopsHigh ==
    [][suffered' \cap {"batteryReboot", "dieselReboot", "cloudRestart", "operator"} = {} =>
          /\ gen = "OFF" /\ gen' # "OFF" =>
                200 * charged_capacity < 2 * DispatchPct * Full + HalfUnit
          /\ gen # "OFF" /\ gen' = "OFF" =>
                200 * charged_capacity >= 2 * RecoverPct * Full - HalfUnit]_evars

\* The charges a report shows below 20% and above 40%.
LowCharges  == {c \in 0..MaxCapacity : Below(B!Reported(c), DispatchPct)}
HighCharges == {c \in 0..MaxCapacity : Above(B!Reported(c), RecoverPct)}

\* A node that is out of the registry is not served.
Unserved == registered # Nodes

(* A generator that runs is stopped while the charge stays above 40%       *)
(* (README.md:214-215), unless the cloud is estranged from it.             *)
StopsAfterRecovery ==
    (gen # "OFF" /\ charged_capacity \in HighCharges)
        ~> (gen = "OFF" \/ charged_capacity \notin HighCharges \/ Unserved \/ Estranged)

(* A generator that is off is started while the charge stays below 20% and *)
(* the renewables do not cover the load, again unless estranged.           *)
StartsInNeed ==
    (gen = "OFF" /\ charged_capacity \in LowCharges)
        ~> (gen # "OFF" \/ charged_capacity \notin LowCharges \/ (pc # "sleep" /\ surplus >= 0)
              \/ Unserved \/ Estranged)

(* README.md:214-215 "stopped once SoC recovers past 40%": the same with   *)
(* no such reservation.                                                    *)
AlwaysStopped ==
    (gen # "OFF" /\ charged_capacity \in HighCharges)
        ~> (gen = "OFF" \/ charged_capacity \notin HighCharges)
=============================================================================
