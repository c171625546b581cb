----------------------------- MODULE ChargeLock -----------------------------
(***************************************************************************)
(* What a battery with an on-device charge lock promises, with no mention  *)
(* of requests, replies or payloads: a level that moves up only while the  *)
(* lock is open or bypassed and down at any time, and a lock that closes   *)
(* when the level reaches High, opens when it falls to Low, and otherwise  *)
(* keeps its position, bypassed or not.  Battery implements it.            *)
(***************************************************************************)
EXTENDS Integers

CONSTANTS Levels,   \* the levels the battery can be at, integers
          High,     \* the lock closes at this level or above
          Low,      \* the lock opens at this level or below, under High
          Initial   \* the level after power-on, under High

VARIABLES level, locked,
          bypass    \* the lock is closed to no one

lvars == <<level, locked, bypass>>

\* The position of the lock once the level is l.
LockAfter(l) == (l >= High) \/ (locked /\ l > Low)

Init == level = Initial /\ locked = FALSE /\ bypass = FALSE

Charge(l) ==
    /\ ~locked \/ bypass
    /\ l > level
    /\ level' = l
    /\ locked' = LockAfter(l)
    /\ UNCHANGED bypass

Discharge(l) ==
    /\ l <= level
    /\ level' = l
    /\ locked' = LockAfter(l)
    /\ UNCHANGED bypass

SetBypass(on) == bypass' = on /\ UNCHANGED <<level, locked>>

PowerCycle == level' = Initial /\ locked' = FALSE /\ bypass' = FALSE

Next == \/ \E l \in Levels : Charge(l) \/ Discharge(l)
        \/ \E on \in BOOLEAN : SetBypass(on)
        \/ PowerCycle

Spec == Init /\ [][Next]_lvars
=============================================================================
