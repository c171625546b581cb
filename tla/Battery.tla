------------------------------ MODULE Battery ------------------------------
(***************************************************************************)
(* The battery node: its CoAP server and the two resources of              *)
(* res-battery.c.  A handler runs to completion inside the CoAP engine, so *)
(* each outcome of a handler is one step.  Energy is counted in integer    *)
(* capacity units; a percentage p of the capacity is compared as           *)
(* 100 * charged_capacity against p * MaxCapacity.                         *)
(***************************************************************************)
EXTENDS Integers

CONSTANTS MaxCapacity,     \* BATTERY_MAX_CAPACITY
          StartCapacity,   \* BATTERY_START_CAPACITY
          LockPct,         \* SOC_LOCK_THRESHOLD, in percent
          UnlockPct,       \* SOC_UNLOCK_THRESHOLD, in percent
          ReportUnit,      \* capacity units in the 0.1 kWh a GET reports
          Deltas,          \* the amounts a PUT may ask for; 0 is what atof()
                           \* makes of a body that is not a number
          MaxDelta,        \* an upper bound of Deltas
          ServedPaths      \* the paths coap_server_process activates

BatteryPath  == "actuators/battery"
OverridePath == "actuators/battery/override"
Paths        == {BatteryPath, OverridePath}

ASSUME BatteryAssumption ==
    /\ MaxCapacity \in Nat \ {0}
    /\ LockPct \in 1..100 /\ UnlockPct \in 0..100 /\ UnlockPct < LockPct
    /\ StartCapacity \in 0..MaxCapacity
    /\ 100 * StartCapacity < LockPct * MaxCapacity
    /\ ReportUnit \in Nat \ {0}
    /\ MaxDelta \in Nat
    /\ Deltas \subseteq Int /\ \A d \in Deltas : d <= MaxDelta
    /\ ServedPaths \subseteq Paths

VARIABLES charged_capacity, charging_locked, override_active,
          activated,   \* the paths the CoAP engine currently serves
          reply        \* the response to the last request

bvars == <<charged_capacity, charging_locked, override_active, activated, reply>>

Codes == {"none", "2.04", "2.05", "4.00", "4.03", "4.04"}

\* format_fixed_1 rounds half up to a whole number of report units.
Reported(c) == (2 * c + ReportUnit) \div (2 * ReportUnit)

\* The plausible slips the runs must notice (used by no action).
ClampNoFloor(c)       == IF c > MaxCapacity THEN MaxCapacity ELSE c
ClampNoCeiling(c)     == IF c < 0 THEN 0 ELSE c
LockUnlessOverride(c) == ~override_active /\ 100 * c >= LockPct * MaxCapacity
RefusedInverted(d)    == d > 0 /\ charging_locked /\ override_active

Clamp(c) == IF c < 0 THEN 0 ELSE IF c > MaxCapacity THEN MaxCapacity ELSE c

\* update_lock_state, for a charge of c.
AtLock(c)    == 100 * c >= LockPct * MaxCapacity
AtUnlock(c)  == 100 * c <= UnlockPct * MaxCapacity
LockAfter(c) == AtLock(c) \/ (charging_locked /\ ~AtUnlock(c))

Answer(code) == reply' = [code |-> code, charged |-> reply.charged]
-----------------------------------------------------------------------------
PoweredOn ==
    /\ charged_capacity = StartCapacity
    /\ charging_locked = FALSE
    /\ override_active = FALSE
    /\ activated = {}

Init == PoweredOn /\ reply = [code |-> "none", charged |-> 0]

\* coap_server_process, after its PROCESS_PAUSE.
ActivateResources ==
    /\ activated = {}
    /\ activated' = ServedPaths
    /\ UNCHANGED <<charged_capacity, charging_locked, override_active, reply>>

\* The CoAP engine answers 4.04 for a path no resource is activated on.
NotFound(path) ==
    /\ path \notin activated
    /\ Answer("4.04")
    /\ UNCHANGED <<charged_capacity, charging_locked, override_active, activated>>

GetBattery ==
    /\ BatteryPath \in activated
    /\ reply' = [code |-> "2.05", charged |-> Reported(charged_capacity)]
    /\ UNCHANGED <<charged_capacity, charging_locked, override_active, activated>>

\* A PUT with an empty body.
PutBatteryEmpty ==
    /\ BatteryPath \in activated
    /\ Answer("4.00")
    /\ UNCHANGED <<charged_capacity, charging_locked, override_active, activated>>

Refused(d) == d > 0 /\ charging_locked /\ ~override_active

RefuseCharge(d) ==
    /\ BatteryPath \in activated
    /\ Refused(d)
    /\ Answer("4.03")
    /\ UNCHANGED <<charged_capacity, charging_locked, override_active, activated>>

ApplyDelta(d) ==
    /\ BatteryPath \in activated
    /\ ~Refused(d)
    /\ charged_capacity' = Clamp(charged_capacity + d)
    /\ charging_locked' = LockAfter(charged_capacity')
    /\ Answer("2.04")
    /\ UNCHANGED <<override_active, activated>>

PutBattery(d) == RefuseCharge(d) \/ ApplyDelta(d)

GetOverride ==
    /\ OverridePath \in activated
    /\ Answer("2.05")
    /\ UNCHANGED <<charged_capacity, charging_locked, override_active, activated>>

\* "on" and "off" are matched as prefixes; every other body is refused.
PutOverride(body) ==
    /\ OverridePath \in activated
    /\ \/ /\ body \in {"on", "off"}
          /\ override_active' = (body = "on")
          /\ Answer("2.04")
       \/ /\ body \notin {"on", "off"}
          /\ Answer("4.00")
          /\ UNCHANGED override_active
    /\ UNCHANGED <<charged_capacity, charging_locked, activated>>

\* The static initialisers are all that survives a power cycle.
Reboot ==
    /\ charged_capacity' = StartCapacity
    /\ charging_locked' = FALSE
    /\ override_active' = FALSE
    /\ activated' = {}
    /\ UNCHANGED reply

Next ==
    \/ ActivateResources
    \/ \E path \in Paths : NotFound(path)
    \/ GetBattery
    \/ PutBatteryEmpty
    \/ \E d \in Deltas : RefuseCharge(d)
    \/ \E d \in Deltas : ApplyDelta(d)
    \/ GetOverride
    \/ \E body \in {"on", "off", "other"} : PutOverride(body)
    \/ Reboot

Spec == Init /\ [][Next]_bvars
-----------------------------------------------------------------------------
TypeOK ==
    /\ charged_capacity \in 0..MaxCapacity
    /\ charging_locked \in BOOLEAN
    /\ override_active \in BOOLEAN
    /\ activated \in {{}, ServedPaths}
    /\ reply \in [code : Codes, charged : 0..Reported(MaxCapacity)]

(* The lock can never disagree with the charge: closed at 95% and above,   *)
(* open at 75% and below, whatever sequence of charges, discharges,        *)
(* overrides and power cycles led there (update_lock_state).               *)
LockMatchesCharge ==
    /\ AtLock(charged_capacity) => charging_locked
    /\ AtUnlock(charged_capacity) => ~charging_locked

(* The lock is decided after a charge is accepted, never before: one PUT   *)
(* may carry the battery past 95%, but without an override no second one   *)
(* can, so the charge stays below the threshold plus one largest PUT.      *)
OvershootBound ==
    100 * charged_capacity < LockPct * MaxCapacity + 100 * MaxDelta

(* The firmware is a ChargeLock: energy enters only through a lock that is *)
(* open or overridden, and closing and opening follow the two thresholds   *)
(* alone.                                                                  *)
Lock == INSTANCE ChargeLock WITH
            Levels <- {100 * c : c \in 0..MaxCapacity},
            High <- LockPct * MaxCapacity, Low <- UnlockPct * MaxCapacity,
            Initial <- 100 * StartCapacity,
            level <- 100 * charged_capacity, locked <- charging_locked,
            bypass <- override_active

ImplementsChargeLock == Lock!Spec
=============================================================================
