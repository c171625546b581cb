---------------------------- MODULE DelayMonitor ----------------------------
(***************************************************************************)
(* How the cloud tells from the telemetry of one node that its network is  *)
(* congested (save_to_influxdb and _update_delay_state): a minimum gap, a  *)
(* window of the last delays and a flag.  The sensor stamps a message with *)
(* its uptime in whole seconds, the cloud with its own clock; times are in *)
(* ms.  One thread handles one message after the other.                    *)
(***************************************************************************)
EXTENDS Integers, Sequences

CONSTANTS Uptimes,      \* uptimes at which a message is sent; only their part
                        \* below a second matters to the cloud
          Transits,     \* the times a message may take to the cloud
          WindowSize,   \* CONGESTION_WINDOW_SIZE
          Threshold,    \* CONGESTION_THRESHOLD_MS
          Downtime,     \* how much later than the last boot a reboot may be
          MaxReboots    \* bound: reboots in a behaviour

ASSUME DelayAssumption ==
    /\ Uptimes \subseteq Nat /\ Transits \subseteq Nat
    /\ WindowSize \in Nat \ {0} /\ Threshold \in Nat
    /\ Downtime \in Nat \ {0} /\ MaxReboots \in Nat

VARIABLES boot,         \* the time of the cloud at which the uptime was 0
          offset,       \* _mqtt_offsets of the node, Unset before its first message
          window,       \* _delay_windows of the node
          congested,    \* in _delay_state of the node
          recent,       \* history: the messages whose delays are in the window
          minTransit,   \* history: the shortest transit since the last boot
          reboots       \* how much of MaxReboots is used

mvars == <<boot, offset, window, congested, recent, minTransit, reboots>>

Unset  == -1
Second == 1000

\* clock_seconds() * 1000 at an uptime of ms.
SentMs(ms) == Second * (ms \div Second)

\* What a message reaches the cloud with: received_ms - sent_ms.
Gap(ms, transit) == boot + ms + transit - SentMs(ms)

\* A bounded deque: the oldest entry leaves a full window.
Pushed(s, e) == IF Len(s) < WindowSize THEN Append(s, e) ELSE Append(Tail(s), e)

Total(s) ==
    LET sum[i \in 0..Len(s)] == IF i = 0 THEN 0 ELSE sum[i - 1] + s[i]
    IN  sum[Len(s)]

\* A slip: a congestion that is never over.
AverageOnceAbove(s) == congested \/ Total(s) > Threshold * Len(s)

\* avg_delay_ms > CONGESTION_THRESHOLD_MS.
AverageAbove(s) == Total(s) > Threshold * Len(s)

\* Slips: the baseline is the first gap for good, or the last one.
FirstGap(gap) == IF offset = Unset THEN gap ELSE offset
LastGap(gap)  == gap

Baseline(gap) == IF offset = Unset \/ gap < offset THEN gap ELSE offset
-----------------------------------------------------------------------------
Init ==
    /\ boot = 0
    /\ offset = Unset /\ window = <<>> /\ congested = FALSE
    /\ recent = <<>> /\ minTransit = Unset
    /\ reboots = 0

save_to_influxdb(ms, transit) ==
    LET gap == Gap(ms, transit) IN
    /\ offset' = Baseline(gap)
    /\ window' = Pushed(window, gap - offset')
    /\ congested' = AverageAbove(window')
    /\ recent' = Pushed(recent, [transit |-> transit, part |-> ms - SentMs(ms)])
    /\ minTransit' = IF minTransit = Unset \/ transit < minTransit THEN transit ELSE minTransit
    /\ UNCHANGED <<boot, reboots>>

\* The uptime begins anew; the cloud keeps what it has learned.
Reboot ==
    /\ reboots < MaxReboots /\ reboots' = reboots + 1
    /\ boot' = boot + Downtime
    /\ minTransit' = Unset
    /\ UNCHANGED <<offset, window, congested, recent>>

Next ==
    \/ \E ms \in Uptimes, transit \in Transits : save_to_influxdb(ms, transit)
    \/ Reboot

Spec == Init /\ [][Next]_mvars
-----------------------------------------------------------------------------
TypeOK ==
    /\ boot \in Nat /\ offset \in Nat \cup {Unset}
    /\ window \in Seq(Nat) /\ Len(window) <= WindowSize
    /\ congested \in BOOLEAN
    /\ Len(recent) = Len(window)
    /\ minTransit \in Nat \cup {Unset}
    /\ reboots \in 0..MaxReboots

(* The baseline is never above the shortest transit of the node's present  *)
(* life by more than the second the uptime is rounded to, and in its first *)
(* life it is not below it either.                                         *)
BaselineNearest ==
    minTransit # Unset =>
        /\ offset - boot < minTransit + Second
        /\ reboots = 0 => offset - boot >= minTransit

(* A spell of slow messages is always noticed: a window of messages that   *)
(* all took longer than the fastest by more than the threshold and the     *)
(* rounding error means congestion, whatever came before them.             *)
SlowSpellNoticed ==
    /\ minTransit # Unset /\ Len(recent) = WindowSize
    /\ \A i \in 1..WindowSize : recent[i].transit >= minTransit + Threshold + Second
    => congested

(* In the first life of a node a spell of fast messages always clears the  *)
(* congestion, however bad the delays before it were.                      *)
FastSpellClears ==
    /\ reboots = 0 /\ Len(recent) = WindowSize
    /\ \A i \in 1..WindowSize : recent[i].transit + recent[i].part <= Threshold
    => ~congested

(* "this makes the baseline converge to the true minimum network latency   *)
(* over time" (influxdb_connect.py:12): once the node has sent anything in *)
(* its present life, the baseline is the shortest transit of that life, to *)
(* within the second the uptime is rounded to.                             *)
BaselineConverges ==
    minTransit # Unset => offset - boot \in minTransit .. minTransit + Second - 1
=============================================================================
