# Verification of the IoT energy project

TLA+ models of the firmware in `src/sensors/` (Contiki-NG, C) and of the cloud
application in `src/cloud-application/` (Python, asyncio), the TLC configurations
that check them, and TLAPS proofs of what matters most for every value of the
constants. Paths below are relative to the repository's sources, `src/`.

## The system

A set of low-power nodes and one cloud process keep a small grid in balance.
Producers (solar, wind, diesel) publish telemetry over MQTT and answer CoAP
requests; a battery node answers CoAP requests only. The cloud sums what is
produced against a simulated load, moves energy in and out of the battery and
starts the diesel generator when the battery runs low.

| component | state it keeps | operations | talks to |
|---|---|---|---|
| battery node: `coap-mqtt-battery-sensor.c`, `res-battery.c` | charge, lock, override flag (statics), resources activated | GET and PUT `/actuators/battery`, GET and PUT of the override, activation, one `/register` after a boot | cloud (CoAP) |
| producer device: `res-status.c`, `publish_telemetry` in `coap-mqtt-sensor.c`, `detect_anomaly.h` | `device_on`, `device_starting`, the start-up ctimer | PUT and GET of the status, warm-up, a publish that may inject or detect an anomaly and then switches the device off | cloud (CoAP, MQTT), sampling process |
| producer MQTT process: `coap-mqtt-sensor.c`, `sampling_control.c`, `res-sampling.c` | `mqtt_state`, attempts, publish timer, interval and its dirty flag | connect, give up, reconnect, publish, change of the interval | broker, cloud, its own CoAP handlers (through a process poll) |
| energy balance: `energy_state.py` | telemetry readings, `_diesel_dispatched` | `balance_loop`: GET of the battery, PUT of the diesel, PUT of the battery | registry, CoAP client, MQTT thread |
| CoAP client and resources: `coap_client.py`, `coap_resources.py` | none of their own | requests to nodes; `/register`, the operator's status and LED resources | nodes, registry |
| registry and heartbeat: `node_registry.py`, `cloud_app.py` | the dict of nodes | add, remove, a pass of probes every 10 s | CoAP client |
| congestion control: `cloud_app.py` | interval commanded and baseline of each node | a pass every 5 s: learn the baseline, send 5000 ms or the baseline | delay monitor, registry, CoAP client |
| ingestion and delay monitor: `influxdb_connect.py`, `mqtt_client.py` | last uptime, minimum gap, window of delays of each node | one message of the MQTT thread | energy balance, congestion control |
| border router: `border-router.c`, `webserver.c`, `httpd-simple.c` | a pool of connections, one page buffer and the iterators of the page | a TCP event is one call of `httpd_appcall`: read the request, write the next chunk of the page | browsers (TCP) |

Also in the repository, with no logic of this system: deployment files, a Cooja
topology, the notebook that trains the decision tree, and two manual MQTT scripts.
The LED, toggle and push resources are described under "Not modelled".

### What is hard here

Contiki processes and asyncio coroutines are cooperative: a handler, a timer
callback or the code between two awaits runs alone. The hazards are therefore
*between* those pieces, and each is listed at its line in `PROJECT.json`:

- **between two awaits** of `balance_loop` the battery discharges, nodes reboot,
  the heartbeat removes nodes and an operator switches the diesel;
- **CoAP is at-least-once**: a request is lost, or it is handled and the
  acknowledgement is lost, or it is handled twice; the PUT of energy is not
  idempotent;
- **state in two places**: the cloud's `_diesel_dispatched` and the generator's
  own state, the process's `mqtt_state` and the connection of the MQTT library,
  `device_starting` and the ctimer;
- **timers that outlive their purpose**: an "off" during a warm-up, a CONNACK
  after the process gave up;
- **one buffer for all connections**: the web server suspends a page between filling
  the static buffer and emptying it, and other connections run in between;
- **a pool of two** with five ways to give a connection back, and blocks that come back
  with the state of their last owner;
- **polls that are consumed** before what they announce can be applied;
- **snapshots walked across awaits**: the heartbeat and the congestion loop work on
  copies of the registry and of the delay flags while handlers change both;
- **memory about a node that outlives the node's own**: the commanded interval, the
  minimum gap and the dispatch all survive a reboot of the node they describe;
- **thresholds with hysteresis** (95/75% for the lock, 20/40% for the dispatch)
  read from a rounded, older report.

### What makes each component correct

- battery: the lock never disagrees with the charge, and the charge never runs
  past the lock threshold by more than one PUT;
- device: off means off until someone says on; a warm-up is neither shortened nor
  restarted; a fault is published with its context, then zeros, and shows even if
  its message is lost;
- MQTT process: it agrees with the library on being connected, no interval is
  lost, it goes on publishing after the last fault;
- energy balance: what the cloud remembers is what the generator does; the
  generator is started on a low charge and stopped on a high one, and eventually so;
- heartbeat: a dead node does not stay registered and is gone after one pass, a
  live one does not stay out;
- delay monitor: the baseline is the shortest transit, a slow spell is noticed and a
  fast one clears it;
- congestion control: what the cloud remembers having commanded is what the node
  runs, a congested node is slowed down and later gets its own interval back;
- web server: no block is lost, shared or kept for good; a client is served its own
  request; a page nobody interrupts is whole; the buffer is empty between pages.

## The modules

| module | models | state and actions |
|---|---|---|
| `ChargeLock` | abstract: a level, a latch with two thresholds and a bypass | `Charge`, `Discharge`, `SetBypass`, `PowerCycle` |
| `Battery` | the battery node, both resources of `res-battery.c` | one action per outcome of a handler; `LockAfter` is `update_lock_state`, `Reported` the rounding of `format_fixed_1` |
| `Generator` | abstract: OFF, STARTING, ON and a warm-up | `Start`, `Stop`, `Tick`, `Ready`, `Trip`, `PowerCycle` |
| `DeviceStatus` | status resource, ctimer, telemetry of a producer | `build` is the firmware, chosen in the initial state and never changed; `PutOn*`, `PutOff`, `StartupComplete`, `Publish*`, each message `Arrives` or is `Lost`; `DetectAnomaly` is the decision tree; `lastCommand`, `waited`, `resumed`, `previous` are history the code does not have |
| `MqttSensor` | MQTT process, its callbacks, the sampling interval | one action per branch of the process loop, per MQTT event and per handler; library, broker and network are external |
| `EnergyBalance` | `balance_loop` with both nodes and the registry | composes `B == INSTANCE Battery` and `G == INSTANCE Generator`; `pc` is the await the coroutine is at, `exchange` its CoAP exchange; `suffered` is history |
| `NodeRegistry` | registry, `/register`, `/unregister`, heartbeat | nodes are down, booting or up; `todo` is the rest of the snapshot, `probing` and `flight` the awaited probe; `dead` and `added` are history |
| `DelayMonitor` | `save_to_influxdb` and `_update_delay_state` for one node, and the sensor's clock | one action per message; `recent` and `minTransit` are history |
| `CongestionControl` | `_monitor_network_congestion` and the interval of each node | one action per stretch between two awaits; `current`, `ask` and `stage` are the awaited exchange; `suffered` is history |
| `WebServer` | the web server of the border router | one action per event of `httpd_appcall`; `input` and `output` are where the two protothreads wait, `iterator` and `buf` the statics of `webserver.c`; `link` and `flight` are the TCP stack; `heard`, `page`, `lone`, `cut` are history |
| `BatteryProofs`, `DeviceStatusProofs`, `MqttSensorProofs`, `EnergyBalanceProofs`, `NodeRegistryProofs`, `DelayMonitorProofs`, `CongestionControlProofs`, `WebServerProofs` | proofs | see below |
| `MCBattery`, `MCDeviceStatus`, `MCMqttSensor`, `MCEnergyBalance`, `MCNodeRegistry`, `MCDelayMonitor`, `MCCongestionControl`, `MCWebServer` | instances for TLC | sets the `.cfg` files name |

`Battery` implements `ChargeLock` and `DeviceStatus` implements `Generator`
(both as a PROPERTY of a run and as a theorem). This is what lets `EnergyBalance`
use a `Generator` for the diesel node: its steps are those the firmware can take.
`Trip` (a fault) is left out of `EnergyBalance`: the diesel build injects no
anomaly (`ANOMALY_INJECT_PERCENT` 0) and its readings never alarm the tree.

`suffered` in `EnergyBalance` and `CongestionControl` collects the kinds of fault there
have been. A property that no program could keep once the cloud has lost touch with a
node says so: it holds until a fault of `Estranged` happens, and under all the others.
What the repository promises without that reservation is stated as well
(`AlwaysStopped`, `AlwaysSlowedDown`) and refuted by a run.

Definitions marked *a slip* in the modules are used by no action. They are plausible
mistakes in the code (a dropped reset, a swapped order), and the list of mutants
in `PROJECT.json` says which property finds each of them.

### Abstractions

- Energy is counted in whole capacity units: `MCBattery` uses the real 10 kWh in
  steps of 0.05 kWh; `MCEnergyBalance` a battery of 20 units. Percentages are
  the real ones and are compared by cross-multiplication, never by division. In
  `EnergyBalance` a power is the number of units it moves in a cycle.
- A PUT of energy is a whole number, 0 standing for text `atof()` does not
  understand. NaN and infinities, which `atof()` also returns, are left out.
- Renewables and load enter as one `surplus`, chosen anew in each cycle: more
  behaviours than `consumption_w()` and the readings produce.
- `MqttSensor` counts no time: a timer has a length and, later, has expired.
  The keep-alive (fixed at connect time), the sequence number and the unused
  subscription with its LED commands are left out. A request before the resources are activated (4.04)
  is in `Battery` and `DeviceStatus` only.
- `NodeRegistry` counts no time: a probe is sent once or, retransmitted before its
  3 s are over, twice. A node that is down may stay down for ever. The
  back-registration callback (an observation of `test/push` that is only logged) is left out.
- `DelayMonitor` follows one node, whose state in the cloud is independent of other
  nodes', with the clock of the cloud as the reference; only the part of an uptime below a
  second matters, so each uptime stands for all with that part. `sent_ms` wraps after 49
  days on a 32-bit node; this is left out.
- In `CongestionControl` the judgement of the delay monitor is an input that may
  change at any time (`EstimateChanges`): more behaviours than `DelayMonitor` produces. A node's interval
  takes effect in its MQTT process as `MqttSensor` shows. Batteries are skipped by the pass and left out.
- `WebServer` keeps of a request its words, up to two in a segment: "GET ", a path and lines
  nobody looks at, or something else. A page is a list of chunks; of a row only its number
  is kept, not its text, and sections compiled out or without a heading are not in `Rows`. Neighbours,
  routes and links do not change while a page is written. What is on the wire is followed for pages that are
  written alone (`lone`), the only ones of which the code promises anything.
- The TCP stack of `WebServer` is external: a connection has at most one chunk in flight, is polled
  only when it has none, and its end is reported once, except after the
  server's own abort. A stack that forgot a half-closed connection without that callback
  would keep its block: this is assumed away, the stack is not in the repository.
- The cloud's operator, a restart of the cloud and reboots of nodes are faults of
  `EnergyBalance`, bounded together by `MaxFaults`.

## The runs

| run | configuration | shows |
|---|---|---|
| `battery` | real thresholds, 200 units, PUTs of -50, -7, 0, 2 and 5, both resources served | the lock agrees with the charge, overridden or not; refinement of `ChargeLock`; PUTs reach 95%, pass it, are refused, fall below 75% and meet both ends of the range |
| `device` | the solar, wind and diesel firmwares of `project-conf.h`, a delay of 4 ticks, and a diesel with injection; any number of lost messages | off sticks, whole warm-ups, faults in context, an "on" takes effect, a fault shows though its message is lost, refinement of `Generator` |
| `mqtt_sensor` | solar intervals, 3 PUTs, 3 faults | agreement with the library, no lost interval, publishing goes on |
| `balance` | 2 faults of every kind | the battery is protected; starts are on a low charge, stops on a high one; until estranged the dispatch agrees with the generator, which is started in need and stopped after recovery |
| `balance_lost_status` | one lost response of the status PUT; a **violation** | the generator is never stopped |
| `registry` | three nodes, 3 faults of every kind | a dead node is removed, and within the pass that began after it died |
| `registry_race` | one node, one crash; a **violation** | a node back too early is removed by the probe of its old entry, for good |
| `delay` | real window and threshold, one reboot | the baseline is near the shortest transit, a slow spell is noticed in every life of the node, a fast one clears the flag in the first |
| `delay_stale_baseline` | one reboot; a **violation** | the baseline never converges again |
| `congestion` | a solar and a diesel node, 2 faults of every kind | a node runs its own or the congested interval; until estranged memory and nodes agree and nodes are slowed down and restored |
| `congestion_reboot` | one reboot; a **violation** | the node is not slowed down again |
| `webserver` | two blocks, three clients, a page of a list of two rows and an empty one, one fault | no block is lost, shared or kept; own requests only; an uninterrupted page is whole; the buffer is empty between pages |

The firmware as built activates `/actuators/battery` only; `battery` serves the
override too, which adds behaviours and takes none away. `EnergyBalance` is
composed with the firmware as built.
The real diesel node has no injection; `device` also checks the build with it
enabled, which `ANOMALY_INJECT_PERCENT` allows, because only there may a fault meet a warm-up.
`webserver` may stop (`CHECK_DEADLOCK FALSE`): its visits are bounded and clients need not come.

**Bounds.** A warm-up of 2 ticks (`balance`) or 4 (`device`) has a first, a middle and a last tick, which is all the
code distinguishes. In `EnergyBalance` 20 units reported in steps of 2
put a charge exactly on, just below and just above each threshold (20, 40, 75, 95%);
a charge of 1 and a discharge of 2 per cycle cross each of them from both sides,
and surpluses -4, -1 and 1 with a diesel of 3 give every sign of `total_surplus_w`
with the diesel off and on. `MaxFaults = 2` allows a fault and a second that
hits its recovery. `MaxPuts` and `MaxFaults` of 3 in `MqttSensor` let an interval
arrive in every connection state, with a break before and one after.
Three nodes in `NodeRegistry` are one probed, one waiting and one that comes in late; three faults
let a node crash, register again and lose a probe. Messages of `DelayMonitor` leave at the begin,
the middle and the end of a second and take 50 or 1600 ms, one below and one above
threshold plus rounding; five of them fill the window, and more displace its entries. The two nodes of
`CongestionControl` are the ones that differ: the congested interval is
longer than the solar node's own and equal to the diesel node's; one of them fails while the other waits.
In `WebServer` three clients meet two blocks, so that one is refused or gets a block another has
given back, which a third visit allows; two segments after the first cut a request in every way that matters; a list
of two rows has a first, a next and a last step of its loop, an empty list has none; an
idle time of 2 has a tick before the timer is restarted.

**Fairness.** Weak fairness of the steps of code that is always scheduled: the
clock and ctimer of a device, the process and its timers, the coroutine of
`balance_loop`, a node that answers what reached it, a booted node that
activates and registers. None for requests, faults, operators or reboots.
A device goes on publishing and some message arrives (`FaultShows`): that the node reconnects
after every break is `PublishesForever` of `MqttSensor`. In `WebServer` time passes, the stack polls,
reports the end of what was closed and has a chunk acknowledged or gives up; no client need speak or leave.
`MqttSensor` has strong fairness of `EventConnected`: the library goes on trying
(`StackRetries`) and a broker asked again and again answers once; without it
"publishes forever" would be false for want of a broker. `QueueDrains` and
`NetworkUp` are fair because outages are counted faults that end.
The heartbeat and the congestion loop run on
(both catch their exceptions), and a probe has one fate or another because `probe_node` waits 3 s at most.
`DelayMonitor` has no liveness property and no fairness.
`BatteryAnswers` under weak fairness may still be beaten by `LoseRequest`, at most `MaxFaults` times.

## The proofs

All theorems hold under the assumptions named in the modules
(`BatteryAssumption`, `DeviceAssumption`, `SensorAssumption`, `BalanceAssumption`,
`RegistryAssumption`, `DelayAssumption`, `CongestionAssumption`, `WebAssumption`).

- **Battery.** `LockMatchesCharge` is not inductive without the types, and
  `OvershootBound` not without the lock: an accepted positive PUT means an open
  lock, hence a charge below 95%, hence at most one PUT above it. `IInv` is
  the conjunction with "a path that is not served never raises the override flag".
  `OvershootIsBounded` assumes the override is not served, which is the firmware as
  built; no run checks it by itself, the run `balance` does as `BatteryProtected`.
  `BatteryImplementsChargeLock` holds for every set of served paths.
- **DeviceStatus.** `IInv` ties flags, timer and the history of the last command;
  from it the types, the safety invariants and `DeviceImplementsGenerator`, with any messages lost. Theorem
  `FaultAlwaysCarriesContext` needs `vbase # 0` and `ibase + irange <= 83` of each build: otherwise a
  normal reading could be zero volts, or alarm the tree. Every `project-conf.h` satisfies both.
  `WarmupAlwaysConsistent`, a part of `IInv`, is proved and not checked by itself.
- **MqttSensor.** The invariants hold one another: the interval is in effect
  because only a poll that finds the node connected clears the flag, and a
  connection always comes with a poll. `IInv` strengthens `PeriodInEffect` to the
  state before the connection. `SensorTypeCorrect` gives the types. `PeriodIsAlwaysAsAsked` goes back to
  milliseconds: `Ticks` rounds up (`TicksRoundUp`), so an interval of a millisecond is not a timer of no
  ticks at any clock rate, and a connected node never publishes faster than it was told, unless 16 bits cut
  the period. It and `AttemptsAreAlwaysLeft` are proved and in no configuration.
- **EnergyBalance.** Every step, seen through the battery's variables, is a
  step of `Battery` or a stutter (`BatteryInside`), so `OvershootIsBounded` applies
  to the whole system, for any number of losses, repetitions and restarts
  (`BatteryIsProtected`). `DispatchAlwaysAgrees` rests on `Agreement`: until
  estranged, the cloud and the generator disagree only while the status exchange that
  settles it is under way. `AlwaysStartsLowStopsHigh` rests on `ReportIsFresh`: from the answer of
  the battery to the command to the generator the charge stands still, so the report still tells it,
  to within the rounding that `LowIsLow` and `HighIsHigh` account for.
- **NodeRegistry.** A dead node that is still registered is yet to be probed, is
  being probed, or came in since the pass began (`DeadAccounted`); between passes
  the first two are impossible (`Idle`). Any number of faults of every kind.
  `AliveGivenUpOnlyInRace` is the other side of finding 2: where the network loses no probe and no POST
  (`Reliable`), a node that runs is given up only if it came back while its old entry was probed, so that its
  POST is still to arrive or has arrived in this pass. TLC finds both cases; crashes, restarts of
  the cloud and `/unregister` are allowed.
- **DelayMonitor.** `DelaysTypeCorrect`: a delay is never negative, across reboots too.
  `BaselineAlwaysNearest` holds for any number of reboots, because the part of it that
  reboots break is stated for the first life of the node only;
  `delay_stale_baseline` shows what happens to the rest. `SlowSpellAlwaysNoticed` and
  `FastSpellAlwaysClears` rest on `Spells`: the flag says what the window says (`Judged`); in the
  first life of the node a delay is at most its transit and the part of a second cut off (`AtMostTransit`); the fastest
  message of the present life is in the window or has left it, and no delay after it is a second
  below what its transit has in excess of the fastest (`SinceFastest`).
  What is left is that the total of a window lies between bounds its entries have (`TotalBounds`).
- **CongestionControl.** `Known` (what the cloud holds of a node are intervals of that
  node) is inductive under all faults. `CommandedAlwaysInEffect` adds `InEffect`: until
  a response is lost or a node reboots, the memory lags only behind the node whose answer is on its way.
  `BaselineAlwaysOwn` adds `LearnedFirst`, until the cloud restarts:
  then a node that was slowed down is asked again and the
  congested interval taken for its own. `SufferedGrows` carries these
  reservations from one state to the next. `CongestionTypeCorrect` adds `RestTypeOK`; that
  no interval but a node's own or the congested one is ever recorded needs `Known`.
- **WebServer.** `IInv` joins `PoolExact`, `OwnRequest` and `BufferEmptyBetweenPages`, which need
  one another: a step works on the block of its connection, no other connection has that block, and
  a page goes on only where its own client's request is complete. `Outcome` says once what
  `handle_connection` does to a block, `WrittenOn` what a chunk does to the buffer.
  It holds for every number of clients, blocks, lists and rows. `PoolCapacity` counts: what is free and
  what is in use make up `Conns`, so a client is refused only when that many are being served
  (`AlwaysRefusedOnlyWhenFull`, in no configuration). `WebServerTypeCorrect` adds `RestTypeOK`, in which
  no iterator passes the end of its list although every page moves the same ones.
  `LonePageIsAlwaysWhole` needs to know of a lone page at every chunk what has gone out: `UpTo` defines the page as far as
  each of its parts, `RowsGrow` and `PageGoesOn` say that a chunk more is the page as far as the part that follows, and
  `Undisturbed` that the page acknowledged with the chunk in flight is `UpTo` of where the block is, that the buffer
  holds this chunk or nothing and that no other block writes. The last part is what makes the shared
  iterators and the shared buffer harmless; `Begin` ends it for all pages at once. `LoneInv` adds that a block whose page is
  not followed has nothing in `page` and `flight`, from which the next lone page starts. `LoneInv` was
  checked by TLC on the instance of `webserver` before it was proved.

**Recursive functions.** `Total` and `WholePage` are defined by recursion over their data. The library's induction theorems take
a predicate as a parameter and cannot be used with these provers; the well-foundedness of the natural numbers is a
statement about sets and can. `LeastNumber`, in both modules that need it, derives from it that
every set of numbers that is not empty has a least member. A least counterexample then gives in turn
that a function with the recursive equation exists (`SumsExist`, `StringsExist`), that the
defined one is it (`TotalIsSum`, `ShownIsString`), and what it computes (`TotalBounds`).

Only model-checked: the liveness properties (`OnTakesEffect`, `FaultShows`, `PublishesForever`,
`IntervalApplied`, `StopsAfterRecovery`, `StartsInNeed`, `DeadIsRemoved`, `SlowsDown`,
`Restored`, `BlocksComeBack`), which fairness and ENABLED put out of the prover's reach, and what the
runs that find a violation show. Every invariant, action property and refinement of a passing run is
stated by a theorem. The types of `NodeRegistry` and `DelayMonitor` are proved (`RegistryTypeCorrect`,
`DelaysTypeCorrect`) and in no configuration.

## Findings

1. `energy_state.py:124`: the dispatch is recorded only after `set_status`
   returned. If the node acted and the response was lost, the generator runs while the
   cloud believes it is off. Above 20% the dispatch rule then has no reason to speak, so the
   generator is never stopped, although README.md:214-215 says it is
   above 40% (run `balance_lost_status`).
2. `node_registry.py:66`: `update_heartbeat`, whose docstring says it re-adds a node
   when telemetry arrives, has no caller. A node that reboots and registers while the
   heartbeat awaits the probe of its old entry is removed when the probe times out
   and, posting once per boot, stays out (run `registry_race`).
3. `influxdb_connect.py:111`: the minimum gap holds the time of the node's boot and is
   never reset. After a reboot every delay counts the time between the two boots: the
   baseline no longer converges as the comment at line 12 says (run `delay_stale_baseline`).
4. `cloud_app.py:149`: the interval commanded is remembered across a reboot of the node, which is
   then not slowed down again while it stays congested (README.md:198-199; run `congestion_reboot`).

Read while modelling, and the subject of no run:

- `coap-mqtt-battery-sensor.c:111` activates `actuators/battery` only. README.md:71 documents
  `/actuators/battery/override` for manual bypass; a request to it is answered 4.04.
- `coap-mqtt-sensor.c:413` cuts the uptime to whole seconds, so `delay_ms` is not the extra
  transit that cloud-application/README.md:64-66 derives; the rounding alone can
  exceed the 400 ms threshold. `SlowSpellNoticed` and `FastSpellClears` allow for it.
- `cloud_app.py:157` records an interval only after the PUT returned. If the
  node handled it and the response was lost, the node is not restored when its
  delay recovers first: a lost response is among the faults of `Estranged`.
- `webserver.c:55-58` says that pages of several connections may interleave. Also a connection that ends in
  the middle of its page leaves its last chunk in the buffer, and the next page, though
  it has the server to itself, starts with it: `cut` in `BufferEmptyBetweenPages` and the
  condition under which a page is `lone` allow for it.
- The docstring of the congestion loop speaks of 500 ms, the threshold is 400; a comment in
  `coap-mqtt-sensor.c:363` describes MQTT LED commands nothing subscribes to; after a restart
  the cloud learns the congested interval of a slowed node as its baseline.

## Not modelled

- **LED, toggle and push resources** (`res-leds.c`, `res-toggle.c`, `res-push.c`): handlers that
  check their arguments and call the LED driver, and a counter of notifications that the
  cloud logs. No other part of the system reads what they change.
- **LED commands over MQTT** (`coap-mqtt-sensor.c:356-388`): nothing subscribes to the topic.
- **The text of things**: JSON payloads, the rows of the page, logs.
- **InfluxDB, the MQTT client of the cloud, deployment, simulation, training**: I/O, or not part of the running system.
- `update_heartbeat`, `get_expired_nodes` and `set_battery_override`, which nothing calls, and
  `/telemetry`, to which no node posts.
- **Starvation by alternating intervals** (`coap-mqtt-sensor.c:539`): the cloud changes an interval at most every
  5 s and only between 5000 ms and the node's own, which is shorter than that for the solar node and the same for the others;
  that a publish fits in between is a question of real time, which `MqttSensor` does not count.

## Plan

Done, in this order: `Battery` and its abstraction; `DeviceStatus` and its
abstraction; `MqttSensor`; `EnergyBalance`, which composes them; `NodeRegistry`;
`DelayMonitor`; `CongestionControl`; their proofs; lost messages and all builds in
`DeviceStatus`; `WebServer`; the remaining types, the dispatch of `EnergyBalance`, the spells of
`DelayMonitor` and the whole page of `WebServer` proved.

Next:

1. `CongestionControl` composed with `DelayMonitor` and the publishing of the node: the
   loop closed, with the interval and the delay depending on each other; whether a
   node can oscillate, and whether alternating commands can keep it from publishing.
2. `EnergyBalance` with the registry of `NodeRegistry` instead of its own `Remove` and `Register`, the
   detailed registry shown to implement the abstract one.
3. Proofs: the steps of the liveness properties as far as they are invariants, above all what the generator and the
   battery may do between two cycles of `EnergyBalance`.
