------------------------ MODULE EnergyBalanceProofs ------------------------
(***************************************************************************)
(* What the energy balance leaves of the guarantees of its battery.  Seen  *)
(* through its own variables the battery inside EnergyBalance takes steps  *)
(* of Battery only, with PUTs within the power limits, so what             *)
(* BatteryProofs proves of every battery holds of this one, whatever is    *)
(* lost, repeated, restarted or switched.  The second half shows that the   *)
(* cloud and the generator stay of one mind until a fault of the kinds in  *)
(* Estranged: DispatchAgrees speaks of the sleeping loop only, Agreement   *)
(* says who knows what in every phase of a cycle.                          *)
(***************************************************************************)
EXTENDS EnergyBalance, TLAPS

P == INSTANCE BatteryProofs WITH MaxDelta <- MaxCharge, ServedPaths <- {"actuators/battery"}

\* The powers a cycle adds up are numbers: all the battery depends on.
IInv == total \in Int /\ reading \in Int

LEMMA InitInvariant == Init => IInv
  BY DEF Init, IInv

LEMMA DieselReadingInt == reading \in Int => DieselReading \in Int
  BY DEF DieselReading

LEMMA StepInvariant == IInv /\ [Next]_evars => IInv'
<1> SUFFICES ASSUME IInv, [Next]_evars PROVE IInv'
  OBVIOUS
<1> USE BalanceAssumption DEF IInv
<1>1. CASE Wake
  <2>1. PICK s \in Surpluses : total' = s + DieselReading
    BY <1>1 DEF Wake
  <2>2. s \in Int /\ DieselReading \in Int
    BY DieselReadingInt
  <2>3. reading' = reading
    BY <1>1 DEF Wake
  <2> QED
    BY <2>1, <2>2, <2>3
<1>2. ASSUME Adjust, reading' = reading PROVE IInv'
  BY <1>2 DEF Adjust, adjust_battery, EndCycle
<1>3. CASE KeepDispatch \/ StatusAnswered \/ StatusFailed
  BY <1>2, <1>3 DEF KeepDispatch, StatusAnswered, StatusFailed
<1>4. CASE CommandDiesel \/ AdjustDone
  BY <1>4 DEF CommandDiesel, AdjustDone, EndCycle
<1>5. CASE NodeStep
  BY <1>5 DEF NodeStep, BatteryAnswers, DieselAnswers, DieselNotFound
<1>6. CASE DieselPublishes
  BY <1>6 DEF DieselPublishes, cycle
<1>7. CASE BatteryActivates \/ DieselWarmsUp
  BY <1>7 DEF BatteryActivates, DieselWarmsUp, cycle
<1>8. CASE \E n \in Nodes : Register(n)
  BY <1>8 DEF Register, cycle
<1>9. CASE LoseRequest \/ LoseResponse \/ Retransmit
  BY <1>9 DEF LoseRequest, LoseResponse, Retransmit
<1>10. CASE \E n \in Nodes : Remove(n) \/ RegistrationLost(n)
  BY <1>10 DEF Remove, RegistrationLost, cycle
<1>11. CASE ReadingGoesStale \/ BatteryReboots \/ DieselReboots \/ OperatorSwitches
  BY <1>11 DEF ReadingGoesStale, BatteryReboots, DieselReboots, OperatorSwitches, cycle
<1>12. CASE CloudRestarts
  BY <1>12 DEF CloudRestarts, EndCycle
<1>13. CASE UNCHANGED evars
  BY <1>13 DEF evars, cycle
<1> QED
  BY <1>1, <1>3, <1>4, <1>5, <1>6, <1>7, <1>8, <1>9, <1>10, <1>11, <1>12, <1>13
     DEF Next, CloudStep, FaultStep

(* The energy a cycle asks for is within the limits of the battery.        *)
LEMMA DeltaInRange ==
    ASSUME NEW t \in Int PROVE Delta(t) \in Deltas
  BY BalanceAssumption DEF Delta, Deltas

(* Every step of the whole is a step of the battery, or none of its        *)
(* business.                                                               *)
LEMMA StepIsOfBattery == IInv /\ [Next]_evars => [B!Next]_(B!bvars)
<1> SUFFICES ASSUME IInv, [Next]_evars PROVE [B!Next]_(B!bvars)
  OBVIOUS
<1>1. CASE BatteryAnswers
  <2>1. Delta(total) \in Deltas
    BY DeltaInRange DEF IInv
  <2>2. CASE B!GetBattery
    BY <2>2 DEF B!Next
  <2>3. CASE B!PutBattery(Delta(total))
    BY <2>1, <2>3 DEF B!Next, B!PutBattery
  <2>4. CASE B!NotFound(B!BatteryPath)
    BY <2>4 DEF B!Next, B!Paths
  <2> QED
    BY <1>1, <2>2, <2>3, <2>4 DEF BatteryAnswers
<1>2. CASE BatteryActivates
  BY <1>2 DEF BatteryActivates, B!Next
<1>3. CASE BatteryReboots
  BY <1>3 DEF BatteryReboots, B!Next
<1>4. CASE UNCHANGED battery
  BY <1>4 DEF battery, B!bvars
<1>5. CASE CloudStep
  BY <1>4, <1>5 DEF CloudStep, Wake, CommandDiesel, KeepDispatch, StatusAnswered,
                    StatusFailed, AdjustDone
<1>6. CASE DieselAnswers \/ DieselNotFound \/ DieselWarmsUp \/ DieselPublishes
  BY <1>4, <1>6 DEF DieselAnswers, DieselNotFound, DieselWarmsUp, DieselPublishes
<1>7. CASE \E n \in Nodes : Register(n) \/ Remove(n) \/ RegistrationLost(n)
  BY <1>4, <1>7 DEF Register, Remove, RegistrationLost
<1>8. CASE LoseRequest \/ LoseResponse \/ Retransmit \/ ReadingGoesStale
           \/ DieselReboots \/ CloudRestarts \/ OperatorSwitches
  BY <1>4, <1>8 DEF LoseRequest, LoseResponse, Retransmit, ReadingGoesStale, DieselReboots,
                    CloudRestarts, OperatorSwitches
<1>9. CASE UNCHANGED evars
  BY <1>4, <1>9 DEF evars
<1> QED
  BY <1>1, <1>2, <1>3, <1>5, <1>6, <1>7, <1>8, <1>9 DEF Next, NodeStep, FaultStep

(* The battery inside the system is a Battery.                             *)
THEOREM BatteryInside == Spec => B!Spec
<1>1. Init => B!Init
  BY DEF Init
<1> QED
  BY <1>1, InitInvariant, StepInvariant, StepIsOfBattery, PTL DEF Spec, B!Spec

\* What a Battery needs to be told, this one is.
LEMMA BatteryIsConfigured ==
    P!BatteryAssumption /\ P!OverridePath \notin {"actuators/battery"}
  BY BalanceAssumption DEF P!BatteryAssumption, Deltas, P!Paths, P!BatteryPath, P!OverridePath

LEMMA BatteryAsProved == B!Spec => P!Spec
<1>1. B!Init => P!Init
  BY DEF B!Init, P!Init, B!PoweredOn, P!PoweredOn
<1>2. [B!Next]_(B!bvars) => [P!Next]_(P!bvars)
  BY Zenon
     DEF B!Next, P!Next, B!bvars, P!bvars, B!Paths, P!Paths,
         B!BatteryPath, P!BatteryPath, B!OverridePath, P!OverridePath,
         B!ActivateResources, P!ActivateResources, B!NotFound, P!NotFound,
         B!GetBattery, P!GetBattery, B!PutBatteryEmpty, P!PutBatteryEmpty,
         B!RefuseCharge, P!RefuseCharge, B!ApplyDelta, P!ApplyDelta,
         B!GetOverride, P!GetOverride, B!PutOverride, P!PutOverride,
         B!Reboot, P!Reboot, B!Refused, P!Refused, B!Answer, P!Answer,
         B!Clamp, P!Clamp, B!LockAfter, P!LockAfter, B!AtLock, P!AtLock,
         B!AtUnlock, P!AtUnlock, B!Reported, P!Reported
<1> QED
  BY <1>1, <1>2, PTL DEF B!Spec, P!Spec

(* The charge never passes the lock threshold by a whole cycle at full     *)
(* charging power.                                                         *)
THEOREM BatteryIsProtected == Spec => []BatteryProtected
<1>1. P!Spec => []P!OvershootBound
  BY BatteryIsConfigured, P!OvershootIsBounded
<1>2. P!OvershootBound <=> BatteryProtected
  BY DEF P!OvershootBound, BatteryProtected
<1> QED
  BY <1>1, <1>2, BatteryAsProved, BatteryInside, PTL
-----------------------------------------------------------------------------
Totals == {s + p : s \in Surpluses \cup {0}, p \in {0, DieselPower}}

\* The diesel keeps its type in every step of a Generator, the cycle in
\* every step of the loop.
DieselTypeOK == gen \in {"OFF", "STARTING", "ON"} /\ remaining \in G!Cold .. Delay
CycleTypeOK ==
    /\ pc \in {"sleep", "soc", "status", "adjust"}
    /\ exchange \in {"none", "request", "response", "failed"}
    /\ exchange = "none" <=> pc = "sleep"
    /\ surplus \in Surpluses \cup {0} /\ total \in Totals
    /\ should_run \in BOOLEAN
FaultTypeOK == spent \in 0..MaxFaults /\ suffered \subseteq Faults
KnownTypeOK ==
    /\ dispatched \in BOOLEAN
    /\ reading \in {0, DieselPower}
    /\ registered \subseteq Nodes /\ unannounced \subseteq Nodes

\* TypeOK without the battery, which has its own theorem.
CloudTypeOK == DieselTypeOK /\ CycleTypeOK /\ KnownTypeOK /\ FaultTypeOK

LEMMA ZeroTotal == 0 \in Totals
<1>1. 0 + 0 = 0
  OBVIOUS
<1> QED
  BY <1>1 DEF Totals

LEMMA SumInTotals ==
    ASSUME NEW s \in Surpluses, NEW p \in {0, DieselPower} PROVE s + p \in Totals
<1>1. s \in Surpluses \cup {0}
  OBVIOUS
<1>2. \E s1 \in Surpluses \cup {0}, p1 \in {0, DieselPower} : s + p = s1 + p1
  BY <1>1, Zenon
<1> QED
  BY <1>2, BalanceAssumption, SMT DEF Totals

LEMMA WarmupTypes == G!Cold \in G!Cold .. Delay /\ Delay \in G!Cold .. Delay
  BY BalanceAssumption DEF G!Cold

LEMMA SwitchTypes ==
    ASSUME DieselTypeOK, NEW on \in BOOLEAN, Switch(on)
    PROVE  DieselTypeOK'
  BY WarmupTypes DEF DieselTypeOK, Switch, diesel, G!Start, G!Stop

LEMMA WarmsUpTypes == DieselTypeOK /\ (G!Tick \/ G!Ready) => DieselTypeOK'
  BY WarmupTypes, BalanceAssumption DEF DieselTypeOK, G!Tick, G!Ready, G!Cold

LEMMA AdjustTypes ==
    ASSUME CycleTypeOK, should_run' = should_run, Adjust
    PROVE  CycleTypeOK'
  BY ZeroTotal DEF CycleTypeOK, Adjust, EndCycle, adjust_battery

LEMMA FaultTypes ==
    ASSUME NEW kind, FaultTypeOK, Fault(kind)
    PROVE  FaultTypeOK'
  BY BalanceAssumption DEF FaultTypeOK, Fault

LEMMA WakeTypes ==
    ASSUME CycleTypeOK, dispatched \in BOOLEAN, reading \in {0, DieselPower}, Wake
    PROVE  CycleTypeOK'
<1>1. PICK s \in Surpluses : surplus' = s /\ total' = s + DieselReading
  BY DEF Wake
<1>2. DieselReading \in {0, DieselPower}
  BY DEF DieselReading
<1>3. s + DieselReading \in Totals
  BY <1>2, SumInTotals
<1> QED
  BY <1>1, <1>3 DEF Wake, CycleTypeOK, get_battery_state

LEMMA DispatchType ==
    ASSUME NEW r, dispatched \in BOOLEAN PROVE Dispatch(r) \in BOOLEAN
  BY DEF Dispatch, Above, Below

LEMMA InitTypes == Init => CloudTypeOK
<1> SUFFICES ASSUME Init PROVE CloudTypeOK
  OBVIOUS
<1>1. DieselTypeOK
  BY WarmupTypes DEF Init, DieselTypeOK, G!Init, G!Boot
<1>2. CycleTypeOK
  BY ZeroTotal DEF Init, CycleTypeOK
<1>3. KnownTypeOK
  <2>1. dispatched \in BOOLEAN
    BY DEF Init
  <2> QED
    BY <2>1 DEF Init, KnownTypeOK
<1>4. FaultTypeOK
  BY BalanceAssumption DEF Init, FaultTypeOK
<1> QED
  BY <1>1, <1>2, <1>3, <1>4 DEF CloudTypeOK

LEMMA StepTypes == CloudTypeOK /\ [Next]_evars => CloudTypeOK'
<1> SUFFICES ASSUME CloudTypeOK, [Next]_evars PROVE CloudTypeOK'
  OBVIOUS
<1> USE DEF CloudTypeOK
<1>d. UNCHANGED diesel => DieselTypeOK'
  BY DEF diesel, DieselTypeOK
<1>c. UNCHANGED cycle => CycleTypeOK'
  BY DEF cycle, CycleTypeOK
<1>k. UNCHANGED <<dispatched, reading, registry>> => KnownTypeOK'
  BY DEF registry, KnownTypeOK
<1>f. UNCHANGED faults => FaultTypeOK'
  BY DEF faults, FaultTypeOK
<1>1. CASE Wake
  BY <1>1, <1>d, <1>k, <1>f, WakeTypes DEF Wake, KnownTypeOK
<1>2. CASE CommandDiesel
  <2>1. should_run' \in BOOLEAN
    BY <1>2, DispatchType DEF CommandDiesel, KnownTypeOK
  <2>2. CycleTypeOK'
    BY <1>2, <2>1 DEF CommandDiesel, set_status, CycleTypeOK
  <2> QED
    BY <1>2, <2>2, <1>d, <1>k, <1>f DEF CommandDiesel
<1>3. CASE KeepDispatch \/ StatusFailed
  BY <1>3, <1>d, <1>k, <1>f, AdjustTypes DEF KeepDispatch, StatusFailed
<1>4. CASE StatusAnswered
  <2>1. CycleTypeOK'
    BY <1>4, AdjustTypes DEF StatusAnswered
  <2>2. KnownTypeOK'
    BY <1>4 DEF StatusAnswered, KnownTypeOK, CycleTypeOK, registry
  <2> QED
    BY <1>4, <2>1, <2>2, <1>d, <1>f DEF StatusAnswered
<1>5. CASE AdjustDone
  <2>1. CycleTypeOK'
    BY <1>5, ZeroTotal DEF AdjustDone, EndCycle, CycleTypeOK
  <2> QED
    BY <1>5, <2>1, <1>d, <1>k, <1>f DEF AdjustDone
<1>6. CASE BatteryAnswers \/ DieselNotFound
  <2>1. CycleTypeOK'
    BY <1>6 DEF BatteryAnswers, DieselNotFound, CycleTypeOK
  <2> QED
    BY <1>6, <2>1, <1>d, <1>k, <1>f DEF BatteryAnswers, DieselNotFound
<1>7. CASE DieselAnswers
  <2>1. CycleTypeOK'
    BY <1>7 DEF DieselAnswers, CycleTypeOK
  <2>2. DieselTypeOK'
    BY <1>7, SwitchTypes DEF DieselAnswers, CycleTypeOK
  <2> QED
    BY <1>7, <2>1, <2>2, <1>k, <1>f DEF DieselAnswers
<1>8. CASE BatteryActivates
  BY <1>8, <1>d, <1>c, <1>k, <1>f DEF BatteryActivates
<1>9. CASE \E n \in Nodes : Register(n)
  <2>1. KnownTypeOK'
    BY <1>9 DEF Register, KnownTypeOK
  <2> QED
    BY <1>9, <2>1, <1>d, <1>c, <1>f DEF Register
<1>10. CASE DieselWarmsUp
  BY <1>10, WarmsUpTypes, <1>c, <1>k, <1>f DEF DieselWarmsUp
<1>11. CASE DieselPublishes
  <2>1. KnownTypeOK'
    BY <1>11 DEF DieselPublishes, KnownTypeOK, registry
  <2> QED
    BY <1>11, <2>1, <1>d, <1>c, <1>f DEF DieselPublishes
<1>12. CASE LoseRequest \/ LoseResponse \/ Retransmit
  <2>1. CycleTypeOK'
    BY <1>12 DEF LoseRequest, LoseResponse, Retransmit, CycleTypeOK
  <2>2. FaultTypeOK'
    BY <1>12, FaultTypes DEF LoseRequest, LoseResponse, Retransmit
  <2> QED
    BY <1>12, <2>1, <2>2, <1>d, <1>k DEF LoseRequest, LoseResponse, Retransmit
<1>13. CASE \E n \in Nodes : Remove(n) \/ RegistrationLost(n)
  <2>1. KnownTypeOK'
    BY <1>13 DEF Remove, RegistrationLost, KnownTypeOK
  <2>2. FaultTypeOK'
    BY <1>13, FaultTypes DEF Remove, RegistrationLost
  <2> QED
    BY <1>13, <2>1, <2>2, <1>d, <1>c DEF Remove, RegistrationLost
<1>14. CASE ReadingGoesStale
  <2>1. KnownTypeOK'
    BY <1>14 DEF ReadingGoesStale, KnownTypeOK, registry
  <2> QED
    BY <1>14, <2>1, FaultTypes, <1>d, <1>c DEF ReadingGoesStale
<1>15. CASE BatteryReboots
  <2>1. KnownTypeOK'
    BY <1>15 DEF BatteryReboots, KnownTypeOK, Nodes
  <2> QED
    BY <1>15, <2>1, FaultTypes, <1>d, <1>c DEF BatteryReboots
<1>16. CASE DieselReboots
  <2>1. KnownTypeOK'
    BY <1>16 DEF DieselReboots, KnownTypeOK, Nodes
  <2>2. DieselTypeOK'
    BY <1>16, WarmupTypes DEF DieselReboots, DieselTypeOK, G!PowerCycle, G!Boot
  <2> QED
    BY <1>16, <2>1, <2>2, FaultTypes, <1>c DEF DieselReboots
<1>17. CASE CloudRestarts
  <2>1. KnownTypeOK'
    BY <1>17 DEF CloudRestarts, KnownTypeOK
  <2>2. CycleTypeOK'
    BY <1>17, ZeroTotal DEF CloudRestarts, EndCycle, CycleTypeOK
  <2> QED
    BY <1>17, <2>1, <2>2, FaultTypes, <1>d DEF CloudRestarts
<1>18. CASE OperatorSwitches
  <2>1. DieselTypeOK'
    BY <1>18, SwitchTypes DEF OperatorSwitches
  <2> QED
    BY <1>18, <2>1, FaultTypes, <1>c, <1>k DEF OperatorSwitches
<1>19. CASE UNCHANGED evars
  BY <1>19, <1>d, <1>c, <1>k, <1>f DEF evars
<1> QED
  BY <1>1, <1>2, <1>3, <1>4, <1>5, <1>6, <1>7, <1>8, <1>9, <1>10, <1>11, <1>12, <1>13, <1>14,
     <1>15, <1>16, <1>17, <1>18, <1>19
     DEF Next, CloudStep, NodeStep, FaultStep

(* Every variable keeps its type, those of the battery inside included.    *)
THEOREM BalanceTypeCorrect == Spec => []TypeOK
<1>1. P!Spec => []P!TypeOK
  BY BatteryIsConfigured, P!TypeCorrect
<1>2. P!TypeOK => B!TypeOK
  BY Zenon DEF P!TypeOK, B!TypeOK, P!Codes, B!Codes, P!Reported, B!Reported
<1>3. B!TypeOK /\ CloudTypeOK => TypeOK
  BY DEF CloudTypeOK, DieselTypeOK, CycleTypeOK, KnownTypeOK, FaultTypeOK, Totals, TypeOK
<1> QED
  BY <1>1, <1>2, <1>3, BatteryAsProved, BatteryInside, InitTypes, StepTypes, PTL DEF Spec
-----------------------------------------------------------------------------
Runs == gen # "OFF"

\* Who knows what in each phase: outside the exchange with the generator,
\* and in it until the generator has answered, the cloud remembers what it
\* does; from then on it does what it was told.
Agreement ==
    ~Estranged =>
        /\ pc # "status" \/ exchange # "response" => (dispatched <=> Runs)
        /\ pc = "status" /\ exchange = "response" => (should_run <=> Runs)

\* A generator the cloud commands has its resources active: it announced
\* itself after that, and has not booted since.
Announced ==
    ~Estranged /\ ("diesel" \in registered \/ pc = "status") => "diesel" \notin unannounced

AInv == Agreement /\ Announced

(* What has been suffered is never forgotten.                              *)
LEMMA SufferedGrows == ASSUME [Next]_evars PROVE suffered \subseteq suffered'
<1>1. ASSUME NEW kind, Fault(kind) PROVE suffered \subseteq suffered'
  BY <1>1 DEF Fault
<1>2. CASE FaultStep
  BY <1>1, <1>2
     DEF FaultStep, LoseRequest, LoseResponse, Retransmit, Remove, RegistrationLost,
         ReadingGoesStale, BatteryReboots, DieselReboots, CloudRestarts, OperatorSwitches
<1>3. CASE UNCHANGED faults
  BY <1>3 DEF faults
<1>4. CASE CloudStep \/ NodeStep \/ BatteryActivates \/ DieselWarmsUp \/ DieselPublishes
           \/ \E n \in Nodes : Register(n)
  BY <1>3, <1>4
     DEF CloudStep, Wake, CommandDiesel, KeepDispatch, StatusAnswered, StatusFailed, AdjustDone,
         NodeStep, BatteryAnswers, DieselAnswers, DieselNotFound,
         BatteryActivates, DieselWarmsUp, DieselPublishes, Register
<1> QED
  BY <1>2, <1>3, <1>4 DEF Next, evars

LEMMA EstrangedStays == [Next]_evars /\ Estranged => Estranged'
  BY SufferedGrows DEF Estranged

\* The faults after which nothing is claimed make the step estranged.
LEMMA EstrangingFault ==
    ASSUME NEW kind \in {"statusResponse", "repeat", "dieselReboot", "cloudRestart",
                         "operator"},
           Fault(kind)
    PROVE  Estranged'
  BY DEF Fault, Estranged

LEMMA SwitchObeys ==
    ASSUME NEW on \in BOOLEAN, Switch(on) PROVE on <=> Runs'
  BY DEF Switch, diesel, G!Start, G!Stop, Runs

LEMMA InitAgreement == Init => AInv
  BY DEF Init, AInv, Agreement, Announced, G!Init, G!Boot, Runs

LEMMA StepAgreement == CloudTypeOK /\ AInv /\ [Next]_evars => AInv'
<1> SUFFICES ASSUME CloudTypeOK, AInv, [Next]_evars, ~Estranged' PROVE AInv'
  BY DEF AInv, Agreement, Announced
<1>e. ~Estranged
  BY EstrangedStays
<1> USE <1>e DEF AInv, Agreement, Announced, Runs
<1>t. should_run \in BOOLEAN /\ dispatched \in BOOLEAN
  BY DEF CloudTypeOK, CycleTypeOK, KnownTypeOK
<1>1. CASE Wake \/ AdjustDone
  BY <1>1 DEF Wake, AdjustDone, EndCycle, get_battery_state, diesel, registry
<1>2. CASE CommandDiesel
  BY <1>2 DEF CommandDiesel, set_status, diesel, registry
<1>3. ASSUME Adjust PROVE pc' \in {"adjust", "sleep"}
  BY <1>3 DEF Adjust, adjust_battery, EndCycle
<1>4. CASE KeepDispatch \/ StatusFailed
  BY <1>3, <1>4 DEF KeepDispatch, StatusFailed, diesel, registry
<1>5. CASE StatusAnswered
  BY <1>3, <1>5, <1>t DEF StatusAnswered, diesel, registry
<1>6. CASE BatteryAnswers
  BY <1>6 DEF BatteryAnswers, diesel, registry
<1>7. CASE DieselAnswers
  BY <1>7, <1>t, SwitchObeys DEF DieselAnswers, registry
<1>8. CASE DieselNotFound
  BY <1>8 DEF DieselNotFound
<1>9. CASE \E n \in Nodes : Register(n) \/ Remove(n) \/ RegistrationLost(n)
  BY <1>9 DEF Register, Remove, RegistrationLost, diesel, cycle
<1>10. CASE DieselWarmsUp
  BY <1>10 DEF DieselWarmsUp, G!Tick, G!Ready, cycle, registry
<1>11. CASE BatteryActivates \/ DieselPublishes \/ ReadingGoesStale
  BY <1>11 DEF BatteryActivates, DieselPublishes, ReadingGoesStale, diesel, cycle, registry
<1>12. CASE LoseRequest
  BY <1>12 DEF LoseRequest, diesel, registry
<1>13. CASE LoseResponse
  BY <1>13, EstrangingFault DEF LoseResponse, diesel, registry
<1>14. CASE BatteryReboots
  BY <1>14 DEF BatteryReboots, diesel, cycle
<1>15. CASE Retransmit \/ DieselReboots \/ CloudRestarts \/ OperatorSwitches
  BY <1>15, EstrangingFault DEF Retransmit, DieselReboots, CloudRestarts, OperatorSwitches
<1>16. CASE UNCHANGED evars
  BY <1>16 DEF evars, diesel, cycle, registry
<1> QED
  BY <1>1, <1>2, <1>4, <1>5, <1>6, <1>7, <1>8, <1>9, <1>10, <1>11, <1>12, <1>13, <1>14, <1>15,
     <1>16
     DEF Next, CloudStep, NodeStep, FaultStep

(* Until a fault estranges the cloud from the generator, whenever the loop *)
(* sleeps the dispatch it remembers is what the generator does.            *)
THEOREM DispatchAlwaysAgrees == Spec => []DispatchAgrees
<1>1. AInv => DispatchAgrees
  BY DEF AInv, Agreement, DispatchAgrees, Runs
<1> QED
  BY <1>1, InitTypes, StepTypes, InitAgreement, StepAgreement, PTL DEF Spec
-----------------------------------------------------------------------------
\* What StartsLowStopsHigh excludes: a hand other than that of the loop on
\* the charge, the generator or the cycle.
Undisturbed ==
    suffered \cap {"batteryReboot", "dieselReboot", "cloudRestart", "operator"} = {}

\* The charge does not move between the report and the command it leads to:
\* the energy of the cycle is moved last.
ReportIsFresh ==
    Undisturbed =>
        /\ pc = "soc" /\ SocKnown => reply.charged = B!Reported(charged_capacity)
        /\ pc = "status" =>
              IF should_run THEN Below(B!Reported(charged_capacity), DispatchPct)
                            ELSE Above(B!Reported(charged_capacity), RecoverPct)

(* A report is the charge in report units, to the nearest.                 *)
LEMMA ReportedNear ==
    ASSUME NEW c \in Nat
    PROVE  /\ B!Reported(c) \in Int
           /\ 2 * ReportUnit * B!Reported(c) <= 2 * c + ReportUnit
           /\ 2 * c + ReportUnit < 2 * ReportUnit * B!Reported(c) + 2 * ReportUnit
<1>1. ASSUME NEW a \in Int, NEW b \in Nat \ {0}
      PROVE  a \div b \in Int /\ b * (a \div b) <= a /\ a < b * (a \div b) + b
  OBVIOUS
<1>2. 2 * c + ReportUnit \in Int /\ 2 * ReportUnit \in Nat \ {0}
  BY BalanceAssumption
<1> QED
  BY <1>1, <1>2 DEF B!Reported

LEMMA FullInt == B!Reported(MaxCapacity) \in Int
  BY ReportedNear, BalanceAssumption

LEMMA TimesMonotone ==
    ASSUME NEW u \in Nat \ {0}, NEW a \in Int, NEW b \in Int, a < b
    PROVE  u * a < u * b
  OBVIOUS

(* A charge whose report is below the threshold is below it itself but for *)
(* half a report unit, and a charge reported above it likewise.            *)
LEMMA LowIsLow ==
    ASSUME NEW c \in Nat, Below(B!Reported(c), DispatchPct)
    PROVE  200 * c < 2 * DispatchPct * Full + HalfUnit
<1> DEFINE R == B!Reported(c)
           M == B!Reported(MaxCapacity)
           Y == DispatchPct * M
<1>1. R \in Int /\ M \in Int /\ Y \in Int /\ ReportUnit \in Nat \ {0}
  BY ReportedNear, FullInt, BalanceAssumption
<1>2. 100 * R < Y
  BY DEF Below
<1>3. ReportUnit * (100 * R) < ReportUnit * Y
  BY <1>1, <1>2, TimesMonotone
<1>4. 2 * c + ReportUnit < 2 * ReportUnit * R + 2 * ReportUnit
  BY ReportedNear
<1>5. /\ ReportUnit * R \in Int /\ ReportUnit * Y \in Int
      /\ ReportUnit * (100 * R) = 100 * (ReportUnit * R)
      /\ 2 * ReportUnit * R = 2 * (ReportUnit * R)
  BY <1>1
<1>6. 2 * DispatchPct * Full = 2 * (ReportUnit * Y)
  BY <1>1, BalanceAssumption DEF Full
<1> HIDE DEF R, M, Y
<1>7. 200 * c < 2 * (ReportUnit * Y) + 100 * ReportUnit
  BY <1>1, <1>3, <1>4, <1>5
<1> QED
  BY <1>6, <1>7 DEF HalfUnit

LEMMA HighIsHigh ==
    ASSUME NEW c \in Nat, Above(B!Reported(c), RecoverPct)
    PROVE  200 * c >= 2 * RecoverPct * Full - HalfUnit
<1> DEFINE R == B!Reported(c)
           M == B!Reported(MaxCapacity)
           Y == RecoverPct * M
<1>1. R \in Int /\ M \in Int /\ Y \in Int /\ ReportUnit \in Nat \ {0}
  BY ReportedNear, FullInt, BalanceAssumption
<1>2. Y < 100 * R
  BY <1>1 DEF Above
<1>3. ReportUnit * Y < ReportUnit * (100 * R)
  BY <1>1, <1>2, TimesMonotone
<1>4. 2 * ReportUnit * R <= 2 * c + ReportUnit
  BY ReportedNear
<1>5. /\ ReportUnit * R \in Int /\ ReportUnit * Y \in Int
      /\ ReportUnit * (100 * R) = 100 * (ReportUnit * R)
      /\ 2 * ReportUnit * R = 2 * (ReportUnit * R)
  BY <1>1
<1>6. 2 * RecoverPct * Full = 2 * (ReportUnit * Y)
  BY <1>1, BalanceAssumption DEF Full
<1> HIDE DEF R, M, Y
<1>7. 200 * c >= 2 * (ReportUnit * Y) - 100 * ReportUnit
  BY <1>1, <1>3, <1>4, <1>5
<1> QED
  BY <1>6, <1>7 DEF HalfUnit

LEMMA InitFresh == Init => ReportIsFresh
  BY DEF Init, ReportIsFresh, SocKnown

LEMMA UndisturbedBefore == [Next]_evars /\ Undisturbed' => Undisturbed
<1> SUFFICES ASSUME [Next]_evars PROVE suffered \subseteq suffered'
  BY DEF Undisturbed
<1> QED
  BY SufferedGrows

\* Two of the exchanges can hand a disturbed loop its command; in all other
\* steps the charge stands still while one is under way.
LEMMA StepFresh == CloudTypeOK /\ ReportIsFresh /\ [Next]_evars => ReportIsFresh'
<1> SUFFICES ASSUME CloudTypeOK, ReportIsFresh, [Next]_evars, Undisturbed'
             PROVE  ReportIsFresh'
  BY DEF ReportIsFresh
<1>u. Undisturbed
  BY UndisturbedBefore
<1>t. dispatched \in BOOLEAN
  BY DEF CloudTypeOK, KnownTypeOK
<1>a. UNCHANGED battery => B!Reported(charged_capacity)' = B!Reported(charged_capacity)
  BY DEF battery, B!Reported
<1>f. ASSUME NEW kind \in {"batteryReboot", "dieselReboot", "cloudRestart", "operator"},
             Fault(kind)
      PROVE  FALSE
  BY <1>f DEF Fault, Undisturbed
<1>1. CASE Wake
  BY <1>1 DEF Wake, get_battery_state, ReportIsFresh, SocKnown
<1>2. CASE CommandDiesel
  <2>1. /\ pc = "soc" /\ SocKnown /\ should_run' = Dispatch(reply.charged)
        /\ Dispatch(reply.charged) # dispatched /\ pc' = "status"
        /\ UNCHANGED battery
    BY <1>2 DEF CommandDiesel, set_status
  <2>2. reply.charged = B!Reported(charged_capacity)
    BY <1>u, <2>1 DEF ReportIsFresh
  <2>3. IF should_run' THEN Below(B!Reported(charged_capacity), DispatchPct)
                       ELSE Above(B!Reported(charged_capacity), RecoverPct)
    BY <1>t, <2>1, <2>2 DEF Dispatch
  <2> QED
    BY <2>1, <2>3, <1>a DEF ReportIsFresh, Below, Above, battery, B!Reported
<1>3. ASSUME Adjust PROVE pc' \in {"adjust", "sleep"}
  BY <1>3 DEF Adjust, adjust_battery, EndCycle
<1>4. CASE KeepDispatch \/ StatusFailed \/ StatusAnswered
  BY <1>3, <1>4 DEF KeepDispatch, StatusFailed, StatusAnswered, ReportIsFresh
<1>5. CASE AdjustDone
  BY <1>5 DEF AdjustDone, EndCycle, ReportIsFresh
<1>6. CASE BatteryAnswers
  <2>1. pc' = pc /\ pc \in {"soc", "adjust"} /\ should_run' = should_run
    BY <1>6 DEF BatteryAnswers
  <2>2. CASE pc = "adjust"
    BY <2>1, <2>2 DEF ReportIsFresh
  <2>3. CASE pc = "soc" /\ B!GetBattery
    BY <2>1, <2>3 DEF B!GetBattery, ReportIsFresh, B!Reported
  <2>4. CASE pc = "soc" /\ B!NotFound(B!BatteryPath)
    BY <2>1, <2>4 DEF B!NotFound, B!Answer, ReportIsFresh, SocKnown
  <2> QED
    BY <1>6, <2>1, <2>2, <2>3, <2>4 DEF BatteryAnswers
<1>7. ASSUME UNCHANGED <<charged_capacity, reply, pc, should_run>>, SocKnown' => SocKnown
      PROVE  ReportIsFresh'
  <2>1. B!Reported(charged_capacity)' = B!Reported(charged_capacity)
    BY <1>7 DEF B!Reported
  <2> QED
    BY <1>7, <1>u, <2>1 DEF ReportIsFresh, Below, Above, B!Reported
<1>8. CASE DieselAnswers \/ DieselNotFound
  <2>1. pc = "status" /\ UNCHANGED <<battery, pc, should_run>>
    BY <1>8 DEF DieselAnswers, DieselNotFound
  <2> QED
    BY <1>a, <1>u, <2>1 DEF ReportIsFresh, Below, Above, battery, B!Reported
<1>9. CASE \E n \in Nodes : Register(n) \/ Remove(n) \/ RegistrationLost(n)
  BY <1>7, <1>9 DEF Register, Remove, RegistrationLost, battery, cycle, SocKnown
<1>10. CASE DieselWarmsUp \/ DieselPublishes \/ ReadingGoesStale
  BY <1>7, <1>10 DEF DieselWarmsUp, DieselPublishes, ReadingGoesStale, battery, cycle, SocKnown
<1>11. CASE BatteryActivates
  BY <1>7, <1>11 DEF BatteryActivates, B!ActivateResources, cycle, SocKnown
<1>12. CASE LoseRequest \/ LoseResponse \/ Retransmit
  BY <1>7, <1>12 DEF LoseRequest, LoseResponse, Retransmit, battery, SocKnown
<1>13. CASE BatteryReboots \/ DieselReboots \/ CloudRestarts \/ OperatorSwitches
  BY <1>f, <1>13 DEF BatteryReboots, DieselReboots, CloudRestarts, OperatorSwitches
<1>14. CASE UNCHANGED evars
  BY <1>7, <1>14 DEF evars, battery, cycle, SocKnown
<1> QED
  BY <1>1, <1>2, <1>4, <1>5, <1>6, <1>8, <1>9, <1>10, <1>11, <1>12, <1>13, <1>14
     DEF Next, CloudStep, NodeStep, FaultStep

(* Only an answer to the loop moves an undisturbed generator off and on.   *)
LEMMA StepStartsLow ==
    ASSUME CloudTypeOK, ReportIsFresh, charged_capacity \in Nat, [Next]_evars, Undisturbed'
    PROVE  /\ gen = "OFF" /\ gen' # "OFF" =>
                200 * charged_capacity < 2 * DispatchPct * Full + HalfUnit
           /\ gen # "OFF" /\ gen' = "OFF" =>
                200 * charged_capacity >= 2 * RecoverPct * Full - HalfUnit
<1>u. Undisturbed
  BY UndisturbedBefore
<1>1. CASE DieselAnswers
  <2>1. pc = "status" /\ Switch(should_run) /\ should_run \in BOOLEAN
    BY <1>1 DEF DieselAnswers, CloudTypeOK, CycleTypeOK
  <2>2. should_run <=> gen' # "OFF"
    BY <2>1, SwitchObeys DEF Runs
  <2>3. CASE should_run
    <3>1. Below(B!Reported(charged_capacity), DispatchPct)
      BY <1>u, <2>1, <2>3 DEF ReportIsFresh
    <3> QED
      BY <2>2, <2>3, <3>1, LowIsLow
  <2>4. CASE ~should_run
    <3>1. Above(B!Reported(charged_capacity), RecoverPct)
      BY <1>u, <2>1, <2>4 DEF ReportIsFresh
    <3> QED
      BY <2>2, <2>4, <3>1, HighIsHigh
  <2> QED
    BY <2>3, <2>4
<1>2. CASE DieselWarmsUp
  BY <1>2 DEF DieselWarmsUp, G!Tick, G!Ready
<1>3. CASE UNCHANGED diesel
  BY <1>3 DEF diesel
<1>4. CASE DieselReboots \/ OperatorSwitches
  BY <1>4 DEF DieselReboots, OperatorSwitches, Fault, Undisturbed
<1>5. CASE CloudStep \/ BatteryAnswers \/ DieselNotFound \/ BatteryActivates \/ DieselPublishes
           \/ \E n \in Nodes : Register(n) \/ Remove(n) \/ RegistrationLost(n)
  BY <1>3, <1>5
     DEF CloudStep, Wake, CommandDiesel, KeepDispatch, StatusAnswered, StatusFailed, AdjustDone,
         BatteryAnswers, DieselNotFound, BatteryActivates, DieselPublishes, Register, Remove,
         RegistrationLost
<1>6. CASE LoseRequest \/ LoseResponse \/ Retransmit \/ ReadingGoesStale \/ BatteryReboots
           \/ CloudRestarts
  BY <1>3, <1>6 DEF LoseRequest, LoseResponse, Retransmit, ReadingGoesStale, BatteryReboots,
                    CloudRestarts
<1>7. CASE UNCHANGED evars
  BY <1>3, <1>7 DEF evars
<1> QED
  BY <1>1, <1>2, <1>4, <1>5, <1>6, <1>7 DEF Next, NodeStep, FaultStep

(* The generator starts on a battery that is low and stops on one that has *)
(* recovered, by the charge itself and not by the report of it, for every  *)
(* capacity, report unit and pair of thresholds.                           *)
THEOREM AlwaysStartsLowStopsHigh == Spec => StartsLowStopsHigh
<1> DEFINE Safe ==
        suffered' \cap {"batteryReboot", "dieselReboot", "cloudRestart", "operator"} = {} =>
          /\ gen = "OFF" /\ gen' # "OFF" =>
                200 * charged_capacity < 2 * DispatchPct * Full + HalfUnit
          /\ gen # "OFF" /\ gen' = "OFF" =>
                200 * charged_capacity >= 2 * RecoverPct * Full - HalfUnit
<1>1. TypeOK => charged_capacity \in Nat
  BY BalanceAssumption DEF TypeOK, B!TypeOK
<1>2. CloudTypeOK /\ ReportIsFresh /\ charged_capacity \in Nat /\ [Next]_evars => [Safe]_evars
  BY StepStartsLow DEF Undisturbed
<1>3. Spec => []CloudTypeOK
  BY InitTypes, StepTypes, PTL DEF Spec
<1>4. Spec => []ReportIsFresh
  BY <1>3, InitFresh, StepFresh, PTL DEF Spec
<1> QED
  BY <1>1, <1>2, <1>3, <1>4, BalanceTypeCorrect, PTL DEF Spec, StartsLowStopsHigh
=============================================================================
