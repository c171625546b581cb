------------------------- MODULE DelayMonitorProofs -------------------------
(***************************************************************************)
(* The delay monitor for every window, threshold, transit time and moment  *)
(* of sending.                                                             *)
(***************************************************************************)
EXTENDS DelayMonitor, WellFoundedInduction, TLAPS

LEMMA SentWithinSecond ==
    ASSUME NEW ms \in Nat
    PROVE  SentMs(ms) \in Nat /\ ms - SentMs(ms) \in 0..(Second - 1)
  BY DEF SentMs, Second

LEMMA PushedType ==
    ASSUME NEW S, NEW s \in Seq(S), NEW e \in S, Len(s) <= WindowSize
    PROVE  /\ Pushed(s, e) \in Seq(S)
           /\ Len(Pushed(s, e)) <= WindowSize
           /\ Len(Pushed(s, e)) = IF Len(s) < WindowSize THEN Len(s) + 1 ELSE Len(s)
<1>1. CASE Len(s) < WindowSize
  BY <1>1, DelayAssumption DEF Pushed
<1>2. CASE Len(s) = WindowSize
  <2>1. s # << >>
    BY <1>2, DelayAssumption
  <2>2. Tail(s) \in Seq(S) /\ Len(Tail(s)) = Len(s) - 1
    BY <2>1
  <2> QED
    BY <1>2, <2>2, DelayAssumption DEF Pushed
<1> QED
  BY <1>1, <1>2, DelayAssumption

Messages == [transit : Transits, part : 0..(Second - 1)]

Types ==
    /\ TypeOK
    /\ recent \in Seq(Messages)

LEMMA InitTypes == Init => Types
<1> SUFFICES ASSUME Init PROVE Types
  OBVIOUS
<1>1. window \in Seq(Nat) /\ Len(window) = 0
  BY DEF Init
<1>2. recent \in Seq(Messages) /\ Len(recent) = 0
  BY DEF Init
<1>3. boot \in Nat /\ offset \in Nat \cup {Unset} /\ minTransit \in Nat \cup {Unset}
        /\ reboots \in 0..MaxReboots
  BY DelayAssumption DEF Init
<1>4. congested \in BOOLEAN
  BY DEF Init
<1>5. Len(window) <= WindowSize /\ Len(recent) = Len(window)
  BY <1>1, <1>2, DelayAssumption
<1> QED
  BY <1>1, <1>2, <1>3, <1>4, <1>5 DEF Types, TypeOK

LEMMA StepTypes == Types /\ [Next]_mvars => Types'
<1> SUFFICES ASSUME Types, [Next]_mvars PROVE Types'
  OBVIOUS
<1>1. ASSUME NEW ms \in Uptimes, NEW transit \in Transits, save_to_influxdb(ms, transit)
      PROVE  Types'
  <2> DEFINE gap == Gap(ms, transit)
             msg == [transit |-> transit, part |-> ms - SentMs(ms)]
  <2>1. ms \in Nat /\ transit \in Nat /\ boot \in Nat
    BY <1>1, DelayAssumption DEF Types, TypeOK
  <2>2. ms - SentMs(ms) \in 0..(Second - 1) /\ SentMs(ms) \in Nat
    BY <2>1, SentWithinSecond
  <2>3. gap \in Nat
    BY <2>1, <2>2 DEF Gap, Second
  <2>4. offset' \in Nat /\ gap - offset' \in Nat
    BY <1>1, <2>3 DEF save_to_influxdb, Baseline, Types, TypeOK, Unset
  <2>5. msg \in Messages
    BY <2>2 DEF Messages
  <2>6. window' = Pushed(window, gap - offset') /\ recent' = Pushed(recent, msg)
    BY <1>1 DEF save_to_influxdb
  <2> HIDE DEF gap, msg
  <2>7. window \in Seq(Nat) /\ recent \in Seq(Messages) /\ Len(recent) = Len(window)
          /\ Len(window) <= WindowSize
    BY DEF Types, TypeOK
  <2>8. window' \in Seq(Nat) /\ Len(window') <= WindowSize
          /\ recent' \in Seq(Messages) /\ Len(recent') = Len(window')
    BY <2>4, <2>5, <2>6, <2>7, PushedType
  <2>9. minTransit' \in Nat \cup {Unset} /\ congested' \in BOOLEAN
    BY <1>1, <2>1 DEF save_to_influxdb, AverageAbove, Types, TypeOK
  <2> QED
    BY <1>1, <2>4, <2>8, <2>9 DEF save_to_influxdb, Types, TypeOK
<1>2. CASE Reboot
  BY <1>2, DelayAssumption DEF Reboot, Types, TypeOK
<1>3. CASE UNCHANGED mvars
  BY <1>3 DEF mvars, Types, TypeOK
<1> QED
  BY <1>1, <1>2, <1>3 DEF Next

(* A delay is never negative and the window never longer than the code     *)
(* says, whatever the order of fast and slow messages, across reboots too. *)
THEOREM DelaysTypeCorrect == Spec => []TypeOK
<1>1. Types => TypeOK
  BY DEF Types
<1> QED
  BY <1>1, InitTypes, StepTypes, PTL DEF Spec
-----------------------------------------------------------------------------
\* A message seen in this life has left a baseline; in the first life there
\* is none without one.
Seen ==
    /\ minTransit # Unset => offset # Unset
    /\ reboots = 0 /\ minTransit = Unset => offset = Unset

Near == Seen /\ BaselineNearest

LEMMA InitNear == Init => Near
  BY DEF Init, Near, Seen, BaselineNearest, Unset

LEMMA StepNear == Types /\ Near /\ [Next]_mvars => Near'
<1> SUFFICES ASSUME Types, Near, [Next]_mvars PROVE Near'
  OBVIOUS
<1>1. ASSUME NEW ms \in Uptimes, NEW transit \in Transits, save_to_influxdb(ms, transit)
      PROVE  Near'
  <2> DEFINE part == ms - SentMs(ms)
             gap  == Gap(ms, transit)
  <2>1. ms \in Nat /\ transit \in Nat /\ boot \in Nat
    BY <1>1, DelayAssumption DEF Types, TypeOK
  <2>2. part \in 0..(Second - 1)
    BY <2>1, SentWithinSecond
  <2>3. gap = boot + transit + part /\ gap \in Nat
    <3>1. SentMs(ms) \in Nat
      BY <2>1, SentWithinSecond
    <3> QED
      BY <2>1, <2>2, <3>1 DEF Gap, Second
  <2>4. boot' = boot /\ reboots' = reboots
    BY <1>1 DEF save_to_influxdb
  <2>5. offset' = (IF offset = Unset \/ gap < offset THEN gap ELSE offset)
          /\ minTransit' = (IF minTransit = Unset \/ transit < minTransit
                              THEN transit ELSE minTransit)
    BY <1>1 DEF save_to_influxdb, Baseline
  <2>6. offset \in Nat \cup {Unset} /\ minTransit \in Nat \cup {Unset}
    BY DEF Types, TypeOK
  <2> HIDE DEF part, gap
  <2>7. CASE minTransit = Unset
    BY <2>1, <2>2, <2>3, <2>4, <2>5, <2>6, <2>7
       DEF Near, Seen, BaselineNearest, Unset, Second
  <2>8. CASE minTransit # Unset
    BY <2>1, <2>2, <2>3, <2>4, <2>5, <2>6, <2>8
       DEF Near, Seen, BaselineNearest, Unset, Second
  <2> QED
    BY <2>7, <2>8
<1>2. CASE Reboot
  BY <1>2 DEF Reboot, Near, Seen, BaselineNearest, Types, TypeOK, Unset
<1>3. CASE UNCHANGED mvars
  BY <1>3 DEF mvars, Near, Seen, BaselineNearest
<1> QED
  BY <1>1, <1>2, <1>3 DEF Next

(* For every pattern of sending, every transit time and any number of      *)
(* reboots the baseline stays within a second of the shortest transit:     *)
(* from above always, and from below until the node reboots.               *)
THEOREM BaselineAlwaysNearest == Spec => []BaselineNearest
<1>1. Init => Types /\ Near
  BY InitTypes, InitNear
<1>2. Types /\ Near /\ [Next]_mvars => Types' /\ Near'
  BY StepTypes, StepNear
<1>3. Near => BaselineNearest
  BY DEF Near
<1> QED
  BY <1>1, <1>2, <1>3, PTL DEF Spec
-----------------------------------------------------------------------------
(***************************************************************************)
(* The total of a window, by induction over its length.  The induction is  *)
(* taken in the form in which it is a statement about sets: every set of   *)
(* numbers that is not empty has a least member.                           *)
(***************************************************************************)
LEMMA LeastNumber ==
    ASSUME NEW T, T \subseteq Nat, T # {}
    PROVE  \E n \in T : \A m \in T : n <= m
<1>1. PICK R : IsWellFoundedOn(R, Nat) /\ \A x, y \in Nat : x < y => <<x, y>> \in R
  <2>1. IsWellFoundedOn(OpToRel(<, Nat), Nat)
    BY NatLessThanWellFounded
  <2>2. \A x, y \in Nat : x < y => <<x, y>> \in OpToRel(<, Nat)
    BY DEF OpToRel
  <2> QED
    BY <2>1, <2>2, Zenon
<1>2. PICK n \in T : \A y \in T : ~ (<<y, n>> \in R)
  <2>1. IsWellFoundedOn(R, Nat)
    BY <1>1
  <2>2. \E x \in T : \A y \in T : ~ (<<y, x>> \in R)
    BY <2>1, WFMin, Zenon
  <2> QED
    BY <2>2
<1>3. ASSUME NEW m \in T PROVE n <= m
  <2>1. n \in Nat /\ m \in Nat /\ ~(m < n)
    BY <1>1, <1>2
  <2> QED
    BY <2>1
<1> QED
  BY <1>2, <1>3

\* f adds up the first k entries of s.
Sums(f, s, k) ==
    /\ f \in [0..k -> Nat] /\ f[0] = 0
    /\ \A i \in 1..k : f[i] = f[i - 1] + s[i]

LEMMA SumsExist ==
    ASSUME NEW s \in Seq(Nat), NEW n \in 0..Len(s)
    PROVE  \E f : Sums(f, s, n)
<1> DEFINE T == {k \in 0..Len(s) : ~ \E f : Sums(f, s, k)}
<1> SUFFICES ASSUME T # {} PROVE FALSE
  OBVIOUS
<1>1. PICK k \in T : \A m \in T : k <= m
  <2>1. T \subseteq Nat
    OBVIOUS
  <2> QED
    BY <2>1, LeastNumber
<1>2. k \in 0..Len(s) /\ Len(s) \in Nat /\ ~ \E f : Sums(f, s, k)
  BY <1>1
<1>3. CASE k = 0
  <2>1. Sums([i \in 0..0 |-> 0], s, 0)
    BY DEF Sums
  <2> QED
    BY <1>2, <1>3, <2>1
<1>4. CASE k > 0
  <2>1. PICK f : Sums(f, s, k - 1)
    BY <1>1, <1>2, <1>4
  <2> DEFINE g == [i \in 0..k |-> IF i = k THEN f[k - 1] + s[k] ELSE f[i]]
  <2>2. f \in [0..(k - 1) -> Nat] /\ k - 1 \in 0..(k - 1) /\ s[k] \in Nat
    BY <1>2, <1>4, <2>1 DEF Sums
  <2>3. g \in [0..k -> Nat] /\ g[0] = 0
    BY <1>2, <1>4, <2>1, <2>2 DEF Sums
  <2>4. ASSUME NEW i \in 1..k PROVE g[i] = g[i - 1] + s[i]
    <3>1. CASE i = k
      BY <1>2, <1>4, <2>2, <3>1
    <3>2. CASE i # k
      <4>1. i \in 1..(k - 1) /\ i - 1 \in 0..k /\ i - 1 # k /\ i \in 0..k
        BY <1>2, <3>2
      <4> QED
        BY <2>1, <3>2, <4>1 DEF Sums
    <3> QED
      BY <3>1, <3>2
  <2>5. Sums(g, s, k)
    BY <2>3, <2>4 DEF Sums
  <2> QED
    BY <1>2, <2>5
<1> QED
  BY <1>2, <1>3, <1>4

LEMMA TotalIsSum ==
    ASSUME NEW s \in Seq(Nat)
    PROVE  \E f : Sums(f, s, Len(s)) /\ Total(s) = f[Len(s)]
<1> DEFINE Def(f) == f = [i \in 0..Len(s) |-> IF i = 0 THEN 0 ELSE f[i - 1] + s[i]]
           sum == CHOOSE f : Def(f)
<1>1. Len(s) \in Nat
  OBVIOUS
<1>2. PICK f : Sums(f, s, Len(s))
  BY <1>1, SumsExist
<1>3. Def(f)
  BY <1>1, <1>2 DEF Sums
<1>4. Def(sum)
  BY <1>3
<1>5. Total(s) = sum[Len(s)]
  BY DEF Total
<1>6. \A i \in 0..Len(s) : sum[i] = IF i = 0 THEN 0 ELSE sum[i - 1] + s[i]
  BY <1>4
<1> HIDE DEF sum
<1>7. sum[Len(s)] = f[Len(s)]
  <2> DEFINE T == {i \in 0..Len(s) : sum[i] # f[i]}
  <2>1. ASSUME T # {} PROVE FALSE
    <3>1. PICK i \in T : \A m \in T : i <= m
      <4>1. T \subseteq Nat
        OBVIOUS
      <4> QED
        BY <2>1, <4>1, LeastNumber
    <3>2. CASE i = 0
      BY <1>1, <1>2, <1>6, <3>1, <3>2 DEF Sums
    <3>3. CASE i > 0
      <4>1. i \in 1..Len(s) /\ i - 1 \in 0..Len(s) /\ ~(i <= i - 1)
        BY <1>1, <3>1, <3>3
      <4>2. sum[i - 1] = f[i - 1]
        BY <3>1, <4>1
      <4> QED
        BY <1>2, <1>6, <3>1, <3>3, <4>1, <4>2 DEF Sums
    <3> QED
      BY <3>1, <3>2, <3>3
  <2> QED
    BY <1>1, <2>1
<1> QED
  BY <1>2, <1>5, <1>7

\* Entries above a bound have an average above it, entries that are not above
\* it an average that is not.
LEMMA TotalBounds ==
    ASSUME NEW s \in Seq(Nat), Len(s) > 0, NEW t \in Nat
    PROVE  /\ (\A i \in 1..Len(s) : s[i] > t) => Total(s) > t * Len(s)
           /\ (\A i \in 1..Len(s) : s[i] <= t) => ~(Total(s) > t * Len(s))
<1>1. PICK f : Sums(f, s, Len(s)) /\ Total(s) = f[Len(s)]
  BY TotalIsSum
<1>2. Len(s) \in Nat
  OBVIOUS
<1>3. \A i \in 1..Len(s) : i \in Nat /\ i - 1 \in 0..Len(s) /\ f[i - 1] \in Nat
                           /\ f[i] = f[i - 1] + s[i] /\ s[i] \in Nat
  BY <1>1, <1>2 DEF Sums
<1>4. \A i \in Nat : t * i \in Nat /\ (i > 0 => t * i = t * (i - 1) + t)
  OBVIOUS
<1>5. ASSUME \A i \in 1..Len(s) : s[i] > t
      PROVE  Total(s) > t * Len(s)
  <2> DEFINE T == {i \in 1..Len(s) : ~(f[i] > t * i)}
  <2>1. ASSUME T # {} PROVE FALSE
    <3>1. PICK i \in T : \A m \in T : i <= m
      <4>1. T \subseteq Nat
        BY <1>2
      <4> QED
        BY <2>1, <4>1, LeastNumber
    <3>2. f[i] = f[i - 1] + s[i] /\ s[i] > t /\ t * i = t * (i - 1) + t
            /\ s[i] \in Nat /\ f[i - 1] \in Nat /\ t * (i - 1) \in Nat
      <4>1. i - 1 \in Nat
        BY <3>1
      <4> QED
        BY <1>3, <1>4, <1>5, <3>1, <4>1
    <3>3. f[i - 1] >= t * (i - 1)
      <4>1. CASE i = 1
        BY <1>1, <1>2, <4>1 DEF Sums
      <4>2. CASE i # 1
        <5>1. i - 1 \in 1..Len(s) /\ ~(i <= i - 1)
          BY <1>2, <3>1, <4>2
        <5>2. f[i - 1] > t * (i - 1)
          BY <3>1, <5>1
        <5> QED
          BY <3>2, <5>2
      <4> QED
        BY <4>1, <4>2
    <3> QED
      BY <3>1, <3>2, <3>3
  <2> QED
    BY <1>1, <1>2, <2>1
<1>6. ASSUME \A i \in 1..Len(s) : s[i] <= t
      PROVE  ~(Total(s) > t * Len(s))
  <2> DEFINE T == {i \in 0..Len(s) : f[i] > t * i}
  <2>1. ASSUME T # {} PROVE FALSE
    <3>1. PICK i \in T : \A m \in T : i <= m
      <4>1. T \subseteq Nat
        BY <1>2
      <4> QED
        BY <2>1, <4>1, LeastNumber
    <3>2. i # 0
      BY <1>1, <3>1 DEF Sums
    <3>3. i \in 1..Len(s) /\ i - 1 \in 0..Len(s) /\ i - 1 \in Nat /\ ~(i <= i - 1)
      BY <1>2, <3>1, <3>2
    <3>4. ~(f[i - 1] > t * (i - 1))
      BY <3>1, <3>3
    <3>5. f[i] = f[i - 1] + s[i] /\ s[i] <= t /\ t * i = t * (i - 1) + t
            /\ s[i] \in Nat /\ f[i - 1] \in Nat /\ t * (i - 1) \in Nat
      BY <1>3, <1>4, <1>6, <3>3
    <3> QED
      BY <3>1, <3>4, <3>5
  <2> QED
    BY <1>1, <1>2, <2>1
<1> QED
  BY <1>5, <1>6
-----------------------------------------------------------------------------
\* The flag is the judgement of the present window.
Judged == Len(window) > 0 => (congested <=> AverageAbove(window))

\* In the first life of the node a delay is never longer than the transit
\* and the rounding of its message.
AtMostTransit ==
    reboots = 0 =>
        /\ boot = 0
        /\ \A i \in 1..Len(window) : window[i] <= recent[i].transit + recent[i].part

\* The fastest message of the present life is in the window, or has left it;
\* the delays of those after it are not shorter than their transits say.
SinceFastest ==
    minTransit # Unset =>
        \E j \in 0..Len(recent) :
            /\ j > 0 => recent[j].transit = minTransit
            /\ \A i \in (j + 1)..Len(recent) : window[i] + minTransit + Second > recent[i].transit

Spells == Judged /\ AtMostTransit /\ SinceFastest

\* What a message displaces, and where the others go.
LEMMA PushedEntries ==
    ASSUME NEW S, NEW s \in Seq(S), NEW e \in S, Len(s) <= WindowSize,
           NEW gone, gone = IF Len(s) < WindowSize THEN 0 ELSE 1,
           NEW t, t = Pushed(s, e)
    PROVE  /\ Len(t) \in Nat /\ Len(t) > 0 /\ Len(t) = Len(s) + 1 - gone
           /\ t[Len(t)] = e
           /\ \A i \in 1..(Len(t) - 1) : i + gone \in 1..Len(s) /\ t[i] = s[i + gone]
<1>1. CASE Len(s) < WindowSize
  <2>1. Pushed(s, e) = Append(s, e) /\ Len(s) \in Nat
    BY <1>1 DEF Pushed
  <2> QED
    BY <1>1, <2>1
<1>2. CASE Len(s) = WindowSize
  <2>1. s # << >> /\ Len(s) \in Nat
    BY <1>2, DelayAssumption
  <2>2. Tail(s) \in Seq(S) /\ Len(Tail(s)) = Len(s) - 1
          /\ \A i \in 1..(Len(s) - 1) : Tail(s)[i] = s[i + 1]
    BY <2>1
  <2>3. Pushed(s, e) = Append(Tail(s), e) /\ ~(Len(s) < WindowSize)
    BY <1>2, <2>1, DelayAssumption DEF Pushed
  <2> QED
    BY <2>1, <2>2, <2>3
<1> QED
  BY <1>1, <1>2, DelayAssumption

LEMMA InitSpells == Init => Spells
<1> SUFFICES ASSUME Init PROVE Spells
  OBVIOUS
<1>1. Len(window) = 0 /\ reboots = 0 /\ boot = 0 /\ minTransit = Unset
  BY DEF Init
<1> QED
  BY <1>1 DEF Spells, Judged, AtMostTransit, SinceFastest

\* What a message adds to the window.
LEMMA MessageDelay ==
    ASSUME Types, Near, NEW ms \in Uptimes, NEW transit \in Transits,
           save_to_influxdb(ms, transit)
    PROVE  \E part \in 0..(Second - 1), delay \in Nat :
              /\ window' = Pushed(window, delay)
              /\ recent' = Pushed(recent, [transit |-> transit, part |-> part])
              /\ delay <= boot + transit + part
              /\ delay + minTransit' + Second > transit
<1>1. ms \in Nat /\ transit \in Nat /\ boot \in Nat
  BY DelayAssumption DEF Types, TypeOK
<1>2. PICK part \in 0..(Second - 1) : part = ms - SentMs(ms)
  BY <1>1, SentWithinSecond
<1>3. PICK gap \in Nat : gap = Gap(ms, transit) /\ gap = boot + transit + part
  <2>1. SentMs(ms) \in Nat
    BY <1>1, SentWithinSecond
  <2> QED
    BY <1>1, <1>2, <2>1 DEF Gap, Second
<1>4. offset \in Nat \cup {Unset} /\ minTransit \in Nat \cup {Unset}
  BY DEF Types, TypeOK
<1>5. offset' \in Nat /\ offset' <= gap
  BY <1>3, <1>4 DEF save_to_influxdb, Baseline, Unset
<1>6. minTransit' \in Nat
  BY <1>1, <1>4 DEF save_to_influxdb, Unset
<1>7. offset' - boot < minTransit' + Second
  <2>1. Near'
    BY StepNear DEF Next
  <2>2. boot' = boot /\ minTransit' # Unset
    BY <1>6 DEF save_to_influxdb, Unset
  <2> QED
    BY <2>1, <2>2 DEF Near, BaselineNearest
<1>8. PICK delay \in Nat : delay = gap - offset'
  BY <1>3, <1>5
<1>9. window' = Pushed(window, delay)
        /\ recent' = Pushed(recent, [transit |-> transit, part |-> part])
  BY <1>2, <1>3, <1>8 DEF save_to_influxdb
<1>10. delay <= boot + transit + part /\ delay + minTransit' + Second > transit
  <2>1. part \in Nat /\ Second \in Nat
    BY <1>2 DEF Second
  <2>2. delay + offset' = boot + transit + part
    BY <1>3, <1>5, <1>8
  <2>3. \A d, o, b, t, p, m, x \in Nat : d + o = b + t + p /\ o - b < m + x
            => d <= b + t + p /\ d + m + x > t
    OBVIOUS
  <2> QED
    BY <1>1, <1>5, <1>6, <1>7, <2>1, <2>2, <2>3
<1> QED
  BY <1>2, <1>8, <1>9, <1>10

LEMMA StepSpells == Types /\ Near /\ Spells /\ [Next]_mvars => Spells'
<1> SUFFICES ASSUME Types, Near, Spells, [Next]_mvars PROVE Spells'
  OBVIOUS
<1>1. ASSUME NEW ms \in Uptimes, NEW transit \in Transits, save_to_influxdb(ms, transit)
      PROVE  Spells'
  <2>1. PICK part \in 0..(Second - 1), delay \in Nat :
            /\ window' = Pushed(window, delay)
            /\ recent' = Pushed(recent, [transit |-> transit, part |-> part])
            /\ delay <= boot + transit + part
            /\ delay + minTransit' + Second > transit
    BY <1>1, MessageDelay
  <2>2. PICK gone \in {0, 1} : gone = IF Len(window) < WindowSize THEN 0 ELSE 1
    OBVIOUS
  <2>3. PICK n : n = Len(window')
    OBVIOUS
  <2>4. PICK msg \in Messages : /\ msg = [transit |-> transit, part |-> part]
                                /\ msg.transit = transit /\ msg.part = part
    <3>1. [transit |-> transit, part |-> part] \in Messages
      BY DEF Messages
    <3> QED
      BY <3>1
  <2>5. boot' = boot /\ reboots' = reboots
          /\ minTransit' = (IF minTransit = Unset \/ transit < minTransit
                              THEN transit ELSE minTransit)
    BY <1>1 DEF save_to_influxdb
  <2>6. window \in Seq(Nat) /\ recent \in Seq(Messages) /\ Len(recent) = Len(window)
          /\ Len(window) <= WindowSize
    BY DEF Types, TypeOK
  <2>7. Len(recent') = n /\ transit \in Nat
    BY StepTypes, <2>3, DelayAssumption DEF Types, TypeOK
  <2>8. /\ n \in Nat /\ n > 0 /\ n = Len(window) + 1 - gone /\ window'[n] = delay
        /\ \A i \in 1..(n - 1) : i + gone \in 1..Len(window) /\ window'[i] = window[i + gone]
    <3>1. /\ Len(window') \in Nat /\ Len(window') > 0 /\ Len(window') = Len(window) + 1 - gone
          /\ window'[Len(window')] = delay
          /\ \A i \in 1..(Len(window') - 1) :
                 i + gone \in 1..Len(window) /\ window'[i] = window[i + gone]
      <4>1. window' = Pushed(window, delay) /\ (gone = IF Len(window) < WindowSize THEN 0 ELSE 1)
              /\ window \in Seq(Nat) /\ delay \in Nat /\ Len(window) <= WindowSize
        BY <2>1, <2>2, <2>6
      <4> QED
        BY <4>1, PushedEntries
    <3> QED
      BY <2>3, <3>1
  <2>9. /\ recent'[n] = msg
        /\ \A i \in 1..(n - 1) : i + gone \in 1..Len(recent) /\ recent'[i] = recent[i + gone]
    <3>1. recent' = Pushed(recent, msg) /\ (gone = IF Len(recent) < WindowSize THEN 0 ELSE 1)
            /\ Len(recent) <= WindowSize
      BY <2>1, <2>2, <2>4, <2>6
    <3>2. /\ recent'[Len(recent')] = msg
          /\ \A i \in 1..(Len(recent') - 1) :
                 i + gone \in 1..Len(recent) /\ recent'[i] = recent[i + gone]
      BY <2>6, <3>1, PushedEntries
    <3> QED
      BY <2>7, <3>2
  <2>10. Judged'
    BY <1>1 DEF save_to_influxdb, Judged
  <2>11. AtMostTransit'
    <3> SUFFICES ASSUME reboots' = 0, NEW i \in 1..n
                 PROVE  boot' = 0 /\ window'[i] <= recent'[i].transit + recent'[i].part
      <4>1. Len(window') = n /\ (reboots' = 0 => boot' = 0)
        BY <2>3, <2>5 DEF Spells, AtMostTransit
      <4> QED
        BY <4>1 DEF AtMostTransit
    <3>1. boot = 0 /\ boot' = 0 /\ reboots = 0
      BY <2>5 DEF Spells, AtMostTransit
    <3>2. CASE i = n
      <4>1. delay <= transit + part
        BY <2>1, <2>7, <3>1 DEF Second
      <4> QED
        BY <2>4, <2>8, <2>9, <3>1, <3>2, <4>1
    <3>3. CASE i # n
      <4>1. i \in 1..(n - 1)
        BY <2>8, <3>3
      <4>2. i + gone \in 1..Len(window) /\ window'[i] = window[i + gone]
              /\ recent'[i] = recent[i + gone]
        BY <2>8, <2>9, <4>1
      <4> QED
        BY <3>1, <4>2 DEF Spells, AtMostTransit
    <3> QED
      BY <3>2, <3>3
  <2>12. SinceFastest'
    <3>1. CASE minTransit = Unset \/ transit < minTransit
      <4>1. n \in 0..Len(recent') /\ recent'[n].transit = minTransit'
        BY <2>4, <2>5, <2>7, <2>8, <2>9, <3>1
      <4>2. (n + 1)..Len(recent') = {}
        BY <2>7, <2>8
      <4> QED
        BY <4>1, <4>2 DEF SinceFastest
    <3>2. CASE minTransit # Unset /\ ~(transit < minTransit)
      <4>1. PICK j \in 0..Len(recent) :
                /\ j > 0 => recent[j].transit = minTransit
                /\ \A i \in (j + 1)..Len(recent) :
                       window[i] + minTransit + Second > recent[i].transit
        BY <3>2 DEF Spells, SinceFastest
      <4>2. minTransit' = minTransit
        BY <2>5, <3>2
      <4>3. PICK k \in 0..n : /\ k <= n - 1 /\ k + gone >= j
                              /\ k > 0 => k + gone = j
        <5>1. j \in Nat /\ j <= Len(window) /\ Len(window) \in Nat
          BY <2>6, <4>1
        <5>2. CASE j = 0
          <6>1. 0 \in 0..n /\ 0 <= n - 1 /\ 0 + gone >= j
            BY <2>2, <2>8, <5>2
          <6> QED
            BY <6>1
        <5>3. CASE j # 0
          <6>1. j - gone \in 0..n /\ j - gone <= n - 1 /\ (j - gone) + gone = j
            BY <2>8, <5>1, <5>3
          <6> QED
            BY <5>1, <6>1
        <5> QED
          BY <5>2, <5>3
      <4>4. k > 0 => recent'[k].transit = minTransit'
        <5>1. ASSUME k > 0 PROVE k \in 1..(n - 1) /\ k + gone = j /\ j > 0
          BY <2>8, <4>3, <5>1
        <5> QED
          BY <2>9, <4>1, <4>2, <5>1
      <4>5. ASSUME NEW i \in (k + 1)..n
            PROVE  window'[i] + minTransit' + Second > recent'[i].transit
        <5>1. CASE i = n
          BY <2>1, <2>4, <2>8, <2>9, <5>1
        <5>2. CASE i # n
          <6>1. i \in 1..(n - 1) /\ i + gone >= j + 1 /\ j \in Nat
            <7>1. i \in Int /\ k + 1 <= i /\ i <= n /\ k \in Int /\ j \in Nat /\ gone \in Int
              BY <2>2, <2>8, <4>1, <4>3
            <7>2. k + gone >= j /\ k >= 0
              BY <4>3
            <7>3. i \in 1..(n - 1)
              BY <2>8, <5>2, <7>1, <7>2
            <7>4. i + gone >= j + 1
              BY <7>1, <7>2
            <7> QED
              BY <7>1, <7>3, <7>4
          <6>2. i + gone \in 1..Len(recent) /\ window'[i] = window[i + gone]
                  /\ recent'[i] = recent[i + gone]
            BY <2>8, <2>9, <6>1
          <6>3. i + gone \in (j + 1)..Len(recent)
            BY <6>1, <6>2
          <6> QED
            BY <4>1, <4>2, <6>2, <6>3
        <5> QED
          BY <5>1, <5>2
      <4> QED
        BY <2>7, <4>3, <4>4, <4>5 DEF SinceFastest
    <3> QED
      BY <3>1, <3>2
  <2> QED
    BY <2>10, <2>11, <2>12 DEF Spells
<1>2. CASE Reboot
  <2>1. minTransit' = Unset /\ window' = window /\ congested' = congested /\ reboots' # 0
    BY <1>2, DelayAssumption DEF Reboot, Types, TypeOK
  <2> QED
    BY <2>1 DEF Spells, Judged, AtMostTransit, SinceFastest, AverageAbove
<1>3. CASE UNCHANGED mvars
  BY <1>3 DEF mvars, Spells, Judged, AtMostTransit, SinceFastest, AverageAbove
<1> QED
  BY <1>1, <1>2, <1>3 DEF Next

LEMMA InductiveSpells == Spec => [](Types /\ Near /\ Spells)
<1>1. Init => Types /\ Near /\ Spells
  BY InitTypes, InitNear, InitSpells
<1>2. Types /\ Near /\ Spells /\ [Next]_mvars => Types' /\ Near' /\ Spells'
  BY StepTypes, StepNear, StepSpells
<1> QED
  BY <1>1, <1>2, PTL DEF Spec

(* For every window, threshold and pattern of delays, and in every life of *)
(* the node: a window of messages that all took longer than the fastest    *)
(* by more than the threshold and the rounding raises the flag.            *)
THEOREM SlowSpellAlwaysNoticed == Spec => []SlowSpellNoticed
<1>1. Types /\ Spells => SlowSpellNoticed
  <2> SUFFICES ASSUME Types, Spells, minTransit # Unset, Len(recent) = WindowSize,
                      \A i \in 1..WindowSize :
                          recent[i].transit >= minTransit + Threshold + Second
               PROVE  congested
    BY DEF SlowSpellNoticed
  <2>1. window \in Seq(Nat) /\ recent \in Seq(Messages) /\ Len(window) = WindowSize
          /\ WindowSize \in Nat \ {0} /\ Threshold \in Nat /\ minTransit \in Nat
    BY DelayAssumption DEF Types, TypeOK
  <2>2. \A i \in 1..WindowSize : recent[i].transit \in Nat
    <3> TAKE i \in 1..WindowSize
    <3>1. recent[i] \in Messages
      BY <2>1
    <3> QED
      BY <3>1, DelayAssumption DEF Messages
  <2>3. PICK j \in 0..WindowSize :
            /\ j > 0 => recent[j].transit = minTransit
            /\ \A i \in (j + 1)..WindowSize :
                   window[i] + minTransit + Second > recent[i].transit
    BY DEF Spells, SinceFastest
  <2>4. j = 0
    <3>1. ASSUME j > 0 PROVE FALSE
      <4>1. j \in 1..WindowSize
        BY <2>1, <3>1
      <4>2. minTransit >= minTransit + Threshold + Second
        BY <2>3, <3>1, <4>1
      <4> QED
        BY <2>1, <4>2 DEF Second
    <3> QED
      BY <2>1, <3>1
  <2>5. \A i \in 1..Len(window) : window[i] > Threshold
    <3> TAKE i \in 1..Len(window)
    <3>1. i \in (j + 1)..WindowSize /\ i \in 1..WindowSize /\ window[i] \in Nat
      BY <2>1, <2>4
    <3>2. window[i] + minTransit + Second > recent[i].transit
            /\ recent[i].transit >= minTransit + Threshold + Second
      BY <2>3, <3>1
    <3> QED
      BY <2>1, <2>2, <3>1, <3>2 DEF Second
  <2>6. Total(window) > Threshold * Len(window) /\ Len(window) > 0
    <3>1. Len(window) > 0
      BY <2>1
    <3> QED
      BY <2>1, <2>5, <3>1, TotalBounds
  <2> QED
    BY <2>6 DEF Spells, Judged, AverageAbove
<1> QED
  BY <1>1, InductiveSpells, PTL

(* A window of fast messages lowers the flag again, whatever the delays    *)
(* before it were, as long as the node has not rebooted.                   *)
THEOREM FastSpellAlwaysClears == Spec => []FastSpellClears
<1>1. Types /\ Spells => FastSpellClears
  <2> SUFFICES ASSUME Types, Spells, reboots = 0, Len(recent) = WindowSize,
                      \A i \in 1..WindowSize : recent[i].transit + recent[i].part <= Threshold
               PROVE  ~congested
    BY DEF FastSpellClears
  <2>1. window \in Seq(Nat) /\ recent \in Seq(Messages) /\ Len(window) = WindowSize
          /\ WindowSize \in Nat \ {0} /\ Threshold \in Nat
    BY DelayAssumption DEF Types, TypeOK
  <2>2. \A i \in 1..Len(window) : window[i] <= Threshold
    <3> TAKE i \in 1..Len(window)
    <3>1. window[i] \in Nat /\ recent[i] \in Messages
      BY <2>1
    <3>2. recent[i].transit \in Nat /\ recent[i].part \in Nat
      <4>1. recent[i].transit \in Transits /\ recent[i].part \in 0..(Second - 1)
        BY <3>1 DEF Messages
      <4>2. 0..(Second - 1) \subseteq Nat /\ Transits \subseteq Nat
        BY DelayAssumption DEF Second
      <4> QED
        BY <4>1, <4>2
    <3>3. window[i] <= recent[i].transit + recent[i].part
      BY DEF Spells, AtMostTransit
    <3> QED
      BY <2>1, <3>1, <3>2, <3>3
  <2>3. ~(Total(window) > Threshold * Len(window)) /\ Len(window) > 0
    <3>1. Len(window) > 0
      BY <2>1
    <3> QED
      BY <2>1, <2>2, <3>1, TotalBounds
  <2> QED
    BY <2>3 DEF Spells, Judged, AverageAbove
<1> QED
  BY <1>1, InductiveSpells, PTL
=============================================================================
