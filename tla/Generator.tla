----------------------------- MODULE Generator -----------------------------
(***************************************************************************)
(* What a dispatchable producer promises to whoever switches it: a state,  *)
(* OFF, STARTING or ON, and a warm-up of Delay ticks on the way up.  No    *)
(* requests, replies, messages or flags: DeviceStatus implements it, and   *)
(* EnergyBalance relies on nothing else of the diesel node.                *)
(***************************************************************************)
EXTENDS Integers

VARIABLES Delay,      \* ticks of warm-up, 0 for none; fixed with the build
          OnAtBoot,   \* the state after power-on is ON; fixed with the build
          gen,        \* OFF, STARTING or ON
          remaining   \* ticks of warm-up left while STARTING, Cold otherwise

fixed == <<Delay, OnAtBoot>>
gvars == <<fixed, gen, remaining>>

Cold == -1
Boot == IF OnAtBoot THEN "ON" ELSE "OFF"

Init ==
    /\ Delay \in Nat /\ OnAtBoot \in BOOLEAN
    /\ gen = Boot /\ remaining = Cold

\* A start that finds the device running or starting changes nothing.
Start ==
    /\ gen = "OFF"
    /\ IF Delay > 0
       THEN gen' = "STARTING" /\ remaining' = Delay
       ELSE gen' = "ON" /\ remaining' = Cold

Stop == gen' = "OFF" /\ remaining' = Cold

Tick ==
    /\ gen = "STARTING" /\ remaining > 0
    /\ remaining' = remaining - 1
    /\ UNCHANGED gen

Ready ==
    /\ gen = "STARTING" /\ remaining = 0
    /\ gen' = "ON" /\ remaining' = Cold

\* A device that runs may switch itself off.
Trip == gen = "ON" /\ gen' = "OFF" /\ remaining' = Cold

PowerCycle == gen' = Boot /\ remaining' = Cold

Next ==
    /\ Start \/ Stop \/ Tick \/ Ready \/ Trip \/ PowerCycle
    /\ UNCHANGED fixed

Spec == Init /\ [][Next]_gvars
=============================================================================
