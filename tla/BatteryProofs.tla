--------------------------- MODULE BatteryProofs ---------------------------
(***************************************************************************)
(* The battery node for every capacity, every pair of thresholds and every *)
(* set of requests.  The three invariants are inductive together: IInv     *)
(* adds to them that a path outside ServedPaths is never active, hence     *)
(* that the override flag stays down in a firmware that does not serve it. *)
(***************************************************************************)
EXTENDS Battery, TLAPS

OverrideUnserved == OverridePath \notin ServedPaths => override_active = FALSE

Safe == OverridePath \notin ServedPaths => OvershootBound

IInv == TypeOK /\ LockMatchesCharge /\ OverrideUnserved /\ Safe

(* A report lies between the reports of an empty and of a full battery.    *)
LEMMA ReportedRange ==
    ASSUME NEW c \in 0..MaxCapacity
    PROVE  Reported(c) \in 0..Reported(MaxCapacity)
<1> DEFINE U == ReportUnit
<1>1. U \in Nat \ {0} /\ MaxCapacity \in Nat
  BY BatteryAssumption
<1>2. \A a, b \in Nat : a <= b => (a \div (2 * U)) <= (b \div (2 * U))
  BY <1>1, SMTT(30)
<1>3. \A a \in Nat : (a \div (2 * U)) \in Nat
  BY <1>1, SMTT(30)
<1> QED
  BY <1>1, <1>2, <1>3 DEF Reported

(* The open threshold lies strictly below the closed one.                  *)
LEMMA ThresholdsOrdered ==
    /\ LockPct * MaxCapacity \in Int
    /\ UnlockPct * MaxCapacity \in Int
    /\ UnlockPct * MaxCapacity < LockPct * MaxCapacity
  BY BatteryAssumption, SMTT(30)

LEMMA ClampRange ==
    ASSUME NEW c \in Int
    PROVE  Clamp(c) \in 0..MaxCapacity
  BY BatteryAssumption DEF Clamp

(* A charge that is not refused ends below the bound.                      *)
LEMMA ApplyKeepsBound ==
    ASSUME IInv, NEW d \in Deltas, ApplyDelta(d), OverridePath \notin ServedPaths
    PROVE  OvershootBound'
<1> DEFINE L == LockPct * MaxCapacity
<1> DEFINE c == charged_capacity
<1>1. /\ MaxCapacity \in Nat /\ MaxDelta \in Nat /\ d \in Int /\ d <= MaxDelta
      /\ c \in Int /\ 0 <= c
      /\ L \in Int
      /\ 100 * c < L + 100 * MaxDelta
      /\ charged_capacity' = Clamp(c + d)
  BY BatteryAssumption, ThresholdsOrdered
     DEF IInv, TypeOK, Safe, OvershootBound, ApplyDelta
<1>2. 0 < L
  BY BatteryAssumption, SMTT(30)
<1>3. CASE d <= 0
  <2>1. Clamp(c + d) <= c
    BY <1>1, <1>3 DEF Clamp
  <2>2. Clamp(c + d) \in Int
    BY <1>1, ClampRange
  <2> HIDE DEF L, c
  <2> QED
    BY <1>1, <2>1, <2>2 DEF OvershootBound, L
<1>4. CASE d > 0
  <2>1. 100 * c < L
    BY <1>1, <1>4 DEF IInv, TypeOK, LockMatchesCharge, OverrideUnserved, ApplyDelta,
                      Refused, AtLock
  <2>2. Clamp(c + d) <= c + MaxDelta
    BY <1>1, <1>4 DEF Clamp
  <2>3. Clamp(c + d) \in Int
    BY <1>1, ClampRange
  <2> HIDE DEF L, c
  <2> QED
    BY <1>1, <2>1, <2>2, <2>3 DEF OvershootBound, L
<1> QED
  BY <1>1, <1>3, <1>4

(* What a power cycle or the first power-on establishes.                   *)
LEMMA PoweredOnSafe ==
    PoweredOn => LockMatchesCharge /\ OverrideUnserved /\ Safe
<1> SUFFICES ASSUME PoweredOn PROVE LockMatchesCharge /\ OverrideUnserved /\ Safe
  OBVIOUS
<1>1. 100 * StartCapacity < LockPct * MaxCapacity /\ StartCapacity \in Int /\ MaxDelta \in Nat
  BY BatteryAssumption
<1> QED
  BY <1>1, ThresholdsOrdered
     DEF PoweredOn, LockMatchesCharge, AtLock, AtUnlock, OverrideUnserved, Safe, OvershootBound

LEMMA InitInvariant == Init => IInv
<1> SUFFICES ASSUME Init PROVE IInv
  OBVIOUS
<1>1. 0 \in 0..Reported(MaxCapacity)
  BY BatteryAssumption, ReportedRange
<1>2. TypeOK
  BY <1>1, BatteryAssumption DEF Init, PoweredOn, TypeOK, Codes
<1> QED
  BY <1>2, PoweredOnSafe DEF Init, IInv

LEMMA StepInvariant == IInv /\ [Next]_bvars => IInv'
<1> SUFFICES ASSUME IInv, [Next]_bvars PROVE IInv'
  OBVIOUS
<1> USE DEF IInv
<1>t. TypeOK
  OBVIOUS
<1>1. ASSUME ActivateResources PROVE IInv'
  <2>1. TypeOK'
    BY <1>1, <1>t DEF TypeOK, ActivateResources
  <2> QED
    BY <1>1, <2>1 DEF ActivateResources, LockMatchesCharge, AtLock, AtUnlock,
                      OverrideUnserved, Safe, OvershootBound
<1>2. ASSUME NEW code \in Codes, Answer(code),
             UNCHANGED <<charged_capacity, charging_locked, override_active, activated>>
      PROVE  IInv'
  <2>1. TypeOK'
    BY <1>2, <1>t DEF TypeOK, Answer
  <2> QED
    BY <1>2, <2>1 DEF LockMatchesCharge, AtLock, AtUnlock, OverrideUnserved, Safe,
                      OvershootBound
<1>3. ASSUME GetBattery PROVE IInv'
  <2>1. reply' \in [code : Codes, charged : 0..Reported(MaxCapacity)]
    BY <1>3, <1>t, ReportedRange DEF TypeOK, GetBattery, Codes
  <2>2. TypeOK'
    BY <1>3, <1>t, <2>1 DEF TypeOK, GetBattery
  <2> QED
    BY <1>3, <2>2 DEF GetBattery, LockMatchesCharge, AtLock, AtUnlock, OverrideUnserved,
                      Safe, OvershootBound
<1>4. ASSUME NEW d \in Deltas, ApplyDelta(d) PROVE IInv'
  <2>1. charged_capacity + d \in Int
    BY <1>t, BatteryAssumption DEF TypeOK
  <2>2. charged_capacity' \in 0..MaxCapacity /\ charging_locked' = LockAfter(charged_capacity')
    BY <1>4, <2>1, ClampRange DEF ApplyDelta
  <2>3. TypeOK'
    BY <1>4, <1>t, <2>2 DEF TypeOK, ApplyDelta, LockAfter, Answer, Codes
  <2>4. LockMatchesCharge'
    <3>1. ~(AtLock(charged_capacity') /\ AtUnlock(charged_capacity'))
      <4>1. 100 * charged_capacity' \in Int
        BY <2>2, BatteryAssumption
      <4> QED
        BY <4>1, ThresholdsOrdered DEF AtLock, AtUnlock
    <3>2. (AtLock(charged_capacity))' <=> AtLock(charged_capacity')
      BY DEF AtLock
    <3>3. (AtUnlock(charged_capacity))' <=> AtUnlock(charged_capacity')
      BY DEF AtUnlock
    <3> QED
      BY <2>2, <3>1, <3>2, <3>3, Zenon DEF LockMatchesCharge, LockAfter
  <2>5. OverrideUnserved'
    BY <1>4 DEF OverrideUnserved, ApplyDelta
  <2>6. Safe'
    BY <1>4, ApplyKeepsBound DEF Safe
  <2> QED
    BY <2>3, <2>4, <2>5, <2>6
<1>5. ASSUME NEW body, PutOverride(body) PROVE IInv'
  <2>1. OverridePath \in ServedPaths
    BY <1>5, <1>t DEF PutOverride, TypeOK
  <2>2. TypeOK'
    <3>1. (body = "on") \in BOOLEAN
      OBVIOUS
    <3>2. override_active' \in BOOLEAN
      BY <1>5, <1>t, <3>1, Zenon DEF TypeOK, PutOverride
    <3>3. reply' \in [code : Codes, charged : 0..Reported(MaxCapacity)]
      BY <1>5, <1>t DEF TypeOK, PutOverride, Answer, Codes
    <3> QED
      BY <1>5, <1>t, <3>2, <3>3 DEF TypeOK, PutOverride
  <2> QED
    BY <1>5, <2>1, <2>2 DEF PutOverride, LockMatchesCharge, AtLock, AtUnlock,
                           OverrideUnserved, Safe
<1>6. ASSUME Reboot PROVE IInv'
  <2>1. TypeOK'
    BY <1>6, <1>t, BatteryAssumption DEF TypeOK, Reboot
  <2>2. PoweredOn'
    BY <1>6 DEF PoweredOn, Reboot
  <2>3. (PoweredOn => LockMatchesCharge /\ OverrideUnserved /\ Safe)'
    BY PoweredOnSafe, PTL
  <2> QED
    BY <2>1, <2>2, <2>3
<1>7. ASSUME UNCHANGED bvars PROVE IInv'
  BY <1>7 DEF bvars, TypeOK, LockMatchesCharge, AtLock, AtUnlock, OverrideUnserved, Safe,
              OvershootBound
<1>8. ASSUME NEW path \in Paths, NotFound(path) PROVE IInv'
  BY <1>2, <1>8 DEF NotFound, Codes
<1>9. ASSUME PutBatteryEmpty PROVE IInv'
  BY <1>2, <1>9 DEF PutBatteryEmpty, Codes
<1>10. ASSUME NEW d \in Deltas, RefuseCharge(d) PROVE IInv'
  BY <1>2, <1>10 DEF RefuseCharge, Codes
<1>11. ASSUME GetOverride PROVE IInv'
  BY <1>2, <1>11 DEF GetOverride, Codes
<1> QED
  BY <1>1, <1>3, <1>4, <1>5, <1>6, <1>7, <1>8, <1>9, <1>10, <1>11 DEF Next

(* Every reachable state satisfies the inductive invariant.                *)
THEOREM InvariantHolds == Spec => []IInv
  BY InitInvariant, StepInvariant, PTL DEF Spec

(* The charge stays between empty and full, the served paths are what      *)
(* coap_server_process activated, every reply is well formed.              *)
THEOREM TypeCorrect == Spec => []TypeOK
<1>1. IInv => TypeOK
  BY DEF IInv
<1> QED
  BY <1>1, InvariantHolds, PTL

(* The lock agrees with the charge at and beyond both thresholds, whether  *)
(* or not the firmware serves the override.                                *)
THEOREM LockAlwaysMatchesCharge == Spec => []LockMatchesCharge
<1>1. IInv => LockMatchesCharge
  BY DEF IInv
<1> QED
  BY <1>1, InvariantHolds, PTL

(* In the firmware as built, which does not serve the override, the charge *)
(* never passes the lock threshold by a whole largest PUT.                 *)
THEOREM OvershootIsBounded ==
    ASSUME OverridePath \notin ServedPaths
    PROVE  Spec => []OvershootBound
<1>1. IInv => OvershootBound
  BY DEF IInv, Safe
<1> QED
  BY <1>1, InvariantHolds, PTL
-----------------------------------------------------------------------------
(* Refinement: every step of the battery is a step of ChargeLock.          *)
LEMMA StepRefinesLock ==
    ASSUME IInv, [Next]_bvars
    PROVE  [Lock!Next]_(Lock!lvars)
<1>t. TypeOK
  BY DEF IInv
<1>1. ASSUME NEW d \in Deltas, ApplyDelta(d) PROVE [Lock!Next]_(Lock!lvars)
  <2> DEFINE c == charged_capacity
             n == Clamp(charged_capacity + d)
             H == LockPct * MaxCapacity
             L == UnlockPct * MaxCapacity
  <2>1. /\ c \in 0..MaxCapacity /\ n \in 0..MaxCapacity /\ charged_capacity' = n
        /\ override_active' = override_active
        /\ MaxCapacity \in Nat /\ H \in Int /\ L \in Int
    BY <1>1, <1>t, BatteryAssumption, ClampRange, ThresholdsOrdered DEF TypeOK, ApplyDelta
  <2>2. charging_locked' = Lock!LockAfter(100 * n)
    <3>1. charging_locked' = (100 * n >= H \/ (charging_locked /\ ~(100 * n <= L)))
      BY <1>1 DEF ApplyDelta, LockAfter, AtLock, AtUnlock
    <3> HIDE DEF n, H, L
    <3>2. ~(100 * n <= L) <=> 100 * n > L
      BY <2>1
    <3> QED
      BY <3>1, <3>2 DEF Lock!LockAfter, H, L
  <2>3. 100 * n \in {100 * k : k \in 0..MaxCapacity}
    BY <2>1
  <2>4. CASE n <= c
    <3>1. 100 * n <= 100 * c
      BY <2>1, <2>4
    <3>2. Lock!Discharge(100 * n)
      BY <2>1, <2>2, <3>1 DEF Lock!Discharge
    <3> QED
      BY <2>3, <3>2 DEF Lock!Next
  <2>5. CASE n > c
    <3>1. 100 * n > 100 * c
      BY <2>1, <2>5
    <3>2. d > 0
      BY <2>1, <2>5, BatteryAssumption DEF Clamp
    <3>3. ~charging_locked \/ override_active
      BY <1>1, <1>t, <3>2 DEF ApplyDelta, Refused, TypeOK
    <3>4. Lock!Charge(100 * n)
      BY <2>1, <2>2, <3>1, <3>3 DEF Lock!Charge
    <3> QED
      BY <2>3, <3>4 DEF Lock!Next
  <2> QED
    BY <2>1, <2>4, <2>5
<1>2. ASSUME Reboot PROVE [Lock!Next]_(Lock!lvars)
  BY <1>2 DEF Reboot, Lock!Next, Lock!PowerCycle
<1>3. ASSUME UNCHANGED <<charged_capacity, charging_locked, override_active>>
      PROVE  [Lock!Next]_(Lock!lvars)
  BY <1>3 DEF Lock!lvars
<1>4. ASSUME NEW body, PutOverride(body) PROVE [Lock!Next]_(Lock!lvars)
  <2>1. CASE body \in {"on", "off"}
    <3>1. (body = "on") \in BOOLEAN
      OBVIOUS
    <3>2. Lock!SetBypass(body = "on")
      BY <1>4, <2>1 DEF PutOverride, Lock!SetBypass
    <3> QED
      BY <3>1, <3>2, Zenon DEF Lock!Next
  <2>2. CASE body \notin {"on", "off"}
    BY <1>4, <1>3, <2>2 DEF PutOverride
  <2> QED
    BY <2>1, <2>2
<1> QED
  BY <1>1, <1>2, <1>3, <1>4
     DEF Next, bvars, ActivateResources, NotFound, GetBattery, PutBatteryEmpty, RefuseCharge,
         GetOverride

(* The firmware implements ChargeLock, whatever paths it serves: with the  *)
(* override unserved, as built, the bypass is never used.                  *)
THEOREM BatteryImplementsChargeLock == Spec => ImplementsChargeLock
<1>1. Init => Lock!Init
  BY DEF Init, PoweredOn, Lock!Init
<1>2. IInv /\ [Next]_bvars => [Lock!Next]_(Lock!lvars)
  BY StepRefinesLock
<1> QED
  BY <1>1, <1>2, InvariantHolds, PTL DEF Spec, ImplementsChargeLock, Lock!Spec
=============================================================================
