# TLA+ models of the Huawei Cloud IoT device SDK for C

The SDK connects a device to the IoTDA platform over MQTT. This directory holds
models of the parts in which several threads, restarts or failures meet: the
client-side rule engine with its storage, the life of the MQTT connection, the
dispatch of messages to callbacks, the requests of a bridge, the anomaly detection,
and the remote login tunnel.
`PROJECT.json` lists the runs, the source lines behind each definition, the
hazards and the findings. Paths below are relative to the repository.

## 1. The system

| Part | State it keeps | Operations | Threads |
|---|---|---|---|
| Rule store (`src/service/device_rule/rule_manager.c`, `rule_parser.c`, `rule_trans.c`) | `g_ruleInfosList`, `g_ruleInfosListJSON`, `g_ruleFilePath`, the file | rule bodies, desired versions, deletion, load, save | MQTT callback, application |
| Rule engine (`rule_execution.c`, `rule_manager.c`) | `g_cacheDeviceDataJSON`, `lastExecutedTime` | timer rounds, checks after a report, command threads | timer, application, one per command |
| Rule time (`rule_execution.c`, `rule_condition.c`) | none | time ranges, daily and simple timers | - |
| Dynamic arrays (`rule_util.c`) | element storage | push, remove, pop | - |
| MQTT connection (`src/base/mqtt_base.c`, `src/agentlite/iota_defaultCallback.c`, `iota_init.c`) | parameters, `g_initFlag`, `g_mqttClientCreateFlag`, `g_client`, `retryTimes` | init, configure, connect, disconnect, destroy, reconnect | application, MQTT library |
| Message dispatch (`src/service/callback_func.c`) | the application's callbacks | one handler per topic | MQTT callback |
| Publishing (`iota_datatrans.c`, `iota_payload.c`, `data_trans.c`, `subscribe.c`) | none | build payload and topic, publish, subscribe | any |
| Anomaly detection (`src/service/detect_anomaly`) | `g_mTasks`, brute-force ring, shadow version | switch tasks, report | report thread, detectors, MQTT callback |
| Tunnel (`src/tunnel`) | `g_Conn`, `g_Ctx`, `g_SSHSession`, `g_SSHChannel` | open, reconnect, forward, close | MQTT callback, noPoll loop, closing threads, SSH readers |
| Bridge (`iota_bridge.c`) | `gBridgeRequestId` | requests for devices behind the bridge | any |
| OTA and file transfer (`iota_datatrans.c`, `iota_defaultCallback.c`) | none | download, upload | MQTT callback |
| Soft bus, system abstraction, utilities, cJSON, demos | - | - | - |

How they interact. The MQTT library calls `OnMessageArrived`; it hands rule
bodies to `RuleMgr_Parse` and the desired rule versions of the shadow to
`RuleTrans_DeviceRuleUpdate`, the desired checks to
`Detect_ParseShadowGetOrPropertiesSet`, a tunnel notification through its callback to
`WssClientCreate`, and an answer to a bridge's request to the callback of its kind.
`IOTA_PropertiesReport` caches the reported values
and checks the rules before it publishes; the detection's thread reports through the
same MQTT client. Commands of rules run on threads of
their own and call the application's command handler, which may report again.
`g_ruleMutex` protects the rules, `g_loginLocker` the making of a connection,
`g_channelLocker` the SSH channel. Nothing protects the detection's tasks, the
tunnel's connection and the bridge's counter.

What is hard here: a load from the file overlapping payloads; a power loss while
the file is written; payloads that are readable in part; early returns under a
mutex; a cache no mutex protects; clock values read before a lock and used after
it; a reconnection handler that sleeps while the application destroys and
initialises the SDK; close listeners that run on whichever thread closes; a thread
that is cancelled in the middle of a report; strings that are freed while a list of
services is still being taken apart; counters and rings that wrap. `PROJECT.json` has these at their
lines under "hazards".

## 2. Modules

| Module | Models |
|---|---|
| `RuleMap` | Abstract specification of the store: a map from rules to versions in which a rule is only replaced by a newer version of itself |
| `RuleStore` | The rule store; implements `RuleMap` |
| `RuleStoreProofs` | Proofs about `RuleStore` |
| `RuleTime` | Clock arithmetic of ranges and timers (operators) |
| `RuleEngine` | Timer thread, reports and commands; uses `RuleTime` |
| `RuleEngineProofs` | Proofs about `RuleEngine` and `RuleTime` |
| `Backoff` | How long the reconnection waits (operators) |
| `MqttConnection` | The connection's life and the default reconnection; uses `Backoff` |
| `MqttConnectionProofs` | Proofs about `MqttConnection` and `Backoff` |
| `BruteForce` | The ring of failed logins |
| `BruteForceProofs` | Proofs about `BruteForce` |
| `AnomalyDetection` | The tasks, their settings, the reporting thread and the file monitor; contains `BruteForce` |
| `AnomalyDetectionProofs` | Proofs about `AnomalyDetection` and the ring in it |
| `Bridge` | Requests of a bridge and their ids |
| `BridgeProofs` | Proofs about `Bridge` |
| `MessageDispatch` | What the MQTT thread does with a message; composed with `Bridge`, whose answers are messages |
| `MessageDispatchProofs` | Proofs about `MessageDispatch` and the composition |
| `Tunnel` | WebSocket, SSH session and their threads |
| `TunnelProofs` | Proofs about `Tunnel` |
| `MC*` | Instances for TLC |

Definitions whose comment begins with "Bug:" or "A defect:" are mutated forms of the
definition that follows them. They are used by no specification; replacing the
definition with one of them must break a property.

### RuleStore

A rule of a payload is a record of id, version and *form*: whether its head
(`ruleId`, `ruleVersionInShadow`) and its body can be parsed. `memory` is
`g_ruleInfosList`, `mirror` the JSON text kept for saving, `file` the storage
file. Each iteration of `ParseDeviceRuleWithHook` is a step (`StopParse`,
`SkipRule`, `StoreRule`), for both threads that call it. Saving is `SkipSave`
(every early return) or `OpenFile` followed by `WriteFile`; a `Restart` may fall
between the two. `RuleTrans_DeviceRuleUpdate` is a chain of steps, because it
takes the mutex twice. `before` is a history variable for `RestartKeepsRules`, whose
reference, `LoadedFrom`, is what the loop makes of a file on an empty store.

### RuleTime and RuleEngine

The length of a day, a minute and a week are constants, which lets TLC try every
instant of a week. In `RuleEngine` a round of checking is one step per rule under
`g_ruleMutex`; `now` is the clock value a thread read before it asked for the
mutex. `RuleMgr_CachePropertiesValue` is two steps, `CacheDrop` and `CacheAdd`,
since it runs without a mutex. `Slots` bounds the command threads: with none left
`pthread_create` fails. `prompt` is chosen at the start: the scheduler lets every round of
the timer end within its second, or delays it at will. `fired`, `alone` and `overlap` (two
reports were under way at once) are history variables. `RuleInfo` is what a rule of `g_ruleInfosList` may
be: numbers are what the parser hands on, except that the interval of a simple timer is not 0, by
which the code would divide. `Window` and `RangeIsUnionOfWindows` are the reference for the bit
arithmetic on ranges: a range is a window for each of its days, which may reach into the next day.

### MqttConnection and Backoff

`MqttBase_CreateConnection` is four steps under `g_loginLocker` (`LockLogin`,
`Prepare`, `Create`, `Connect`), for the application and for the handler on the
library's thread; `MqttBase_destory` is two steps around its sleep and takes no
lock. The Paho library is external: `live` are the clients it knows and `link`
their connections. `wanted` and `regular` are history variables. `wanted`: the
application connected and has not disconnected. `regular`: it has used the SDK as
the documentation shows (one life, no change of the secret under a client) and no
library call has failed at once; most properties hold only then, and the table
below says what breaks them otherwise. Only secret authentication is modelled. There is no clock:
a sleep ends at some time. `Prepare` may fail before it comes to the client, as the code does when
the password or the SSL options cannot be made. `Backoff` has the arithmetic of the length of a sleep, `wait`, with
the width of C's `long` (`LongBits`) and the limit of the power of two (`MaxPower`, 31 in the code)
as parameters, so that a run can scale them down together. `retryTimes`
is static in the code and never reset.

### MessageDispatch and Bridge

A topic is the set of marks (the substrings that the code looks for) it contains;
`Order` is the order in which the code looks. A list of services is taken apart one
service per step, as the loops of `OnPropertiesSetArrived`, `OnShadowGetResponseArrived`
and `OnEventsDownArrived` do: `k` is the service, `i` the place in the array, `places`
the array that the callback is shown, `strs` the strings to free, `live` the strings that
are allocated. The number of a service stands for what is printed from it, so a place
shows whose string it holds, and whether that was freed. `calls` and `updates` record
what the callbacks, the rule manager and the detection were given for the message, and of
which service. `Delivered` and `UpdatesOnce` compare them with what the message alone asks
for. `Due` is the set of calls it owes, each with its turn: the report of a configuration's
result comes right after its callback. `HandedOn` are the services whose updates it owes, of
which an event owes those in `Reached`, up to its first service that fails. What was called and
handed on must be these, each once and in order, as far as somebody registered for them (`Carry`, `Hand`).
`callbacks` are the callbacks that are set. A setter may be called at any time; one sets a
single callback, `SetTagEventsOps` sets all of its operations and clears those that it is not given.
`wired` is whether one of the setters that set `onMessageA` was among them. A callback that is
set or cleared while a message is handled may or may not be seen, hence `early`: those that
were set when the message came, and still are. `live` has the strings of lists and also the three kinds that
the code prints and never frees (`Unfreed`), which are forgotten when the next message comes.

In `Bridge` an increment of `gBridgeRequestId` is a load and a store and the comparison
reads the counter again: the Makefile builds without optimisation. `drawn.alone` says
whether any other thread was drawing at the same time, `nth` how many increments came before.
`MessageDispatch` extends `Bridge`; an answer is a message of the kind's topic.

### BruteForce and AnomalyDetection

`BruteForce` has `LoginBruteForceReport` and `LoginBruteForceCheckInit` stepwise at the
accesses to the ring, since one runs on the reporting thread and the other on the
MQTT thread: the index is incremented (`TakeSlot`), the record written (`Store`) and the index
brought back into the ring (`Wrap`). A failure is dated when its line is read, as in the code, not
when the login was tried. `recent` is a history of the latest failures, `raced` says that the ring was
reset while a line was in hand. `AnomalyDetection` has the loop over the tasks, the starting,
cancelling and joining of the reporting thread, the inotify descriptor (`gFd`, and
`rFd` in the hand of the reader), and the settings file, cut off and written in two steps
with a possible restart between, or not opened. The read loop of the monitor is stepwise: `read` takes
whole events as far as they fit the buffer (`TakeEvent`), which is then looked at from `index` on
(`Iterate`); `index` is not set back for the next read, so that events of it are skipped, or bytes in the
middle of one are taken for an event, whose length is then any. The loop ends when there is nothing to
read (`ReadEnds`), and spins on every other error (`Spins`). Plain reports (memory, disk and the like) are one
step. The checks of all messages stored so far are the history `wanted`.

### Tunnel

Threads are the MQTT callback thread, one noPoll loop per context, one closing thread per
failed connect, and one SSH reader per session. A close runs the connection's listener on
the thread that closes, so the retry loop may run on each of them. `lock` is
`g_channelLocker`. noPoll and libssh are external: what they give out is used once. The
histories `overlap` (two threads were in handlers at once) and `timedOut` (a reconnect was
given up before it was answered) limit what is claimed of the connection.

## 3. Runs

| Run | Result | Shows |
|---|---|---|
| `store_clean` | pass | without faults a restart keeps the rules, and operations end |
| `store_faults` | pass | mutual exclusion, unique rules, complete saves and the order of versions under all faults |
| `store_tornsave` | violation | a power loss during a save loses all rules |
| `engine_timers` | pass | prompt timers exactly on schedule, late ones at most once in their minute; reports judged by their own value until two overlap; no deadlock with handlers that report; range arithmetic against a union of windows, for every set of days, start and end |
| `engine_stale` | violation | the race on the cache of reported values |
| `mqtt_reconnect` | pass | in regular use: reconnection, waits within bounds, one client, silence after disconnect and destroy; in any use: no destroyed client in `g_client`, no call waits for ever |
| `mqtt_syncerror` | violation | reconnection that stops |
| `tunnel_overlap` | pass | one connection, losses noticed, no shell without tunnel as long as handlers do not overlap; handlers end however they do |
| `tunnel_idleshell` | violation | a shell that the server closes is never destroyed: its reader waits for its own mutex |
| `anomaly` | pass | thread and monitor follow the checks, settings survive restarts, checks that are on are reported again and again, tampering is reported and no event dropped by the read loop, the alarm tells that a ring full of failures was *read* within the interval |
| `agent` | pass | each message reaches its callbacks once with its own data, updates are handed on once, strings of lists are freed, ids of requests differ |
| `dispatch_undefined` | violation | messages of unknown topics do not reach the callback for them |

The violations are disagreements between the code and a sentence of the
repository; `PROJECT.json` quotes them under "findings".

The passing runs keep some parameters at the value under which the property
holds. Changing one of them shows what it stands for:

| Run | Change | Then violated |
|---|---|---|
| `store_clean` | `InitialFiles <- NoFile` | `RestartKeepsRules`: a file that does not exist is never created, as `realpath` fails |
| `store_clean` | `StorageFirst = FALSE` | `RestartKeepsRules`: a body that comes before `IOTA_EnableDeviceRuleStorage`, in the order the demo calls it, is not saved |
| `store_clean` | `Payloads <- FaultyPayloads` | `RestartKeepsRules`: a body that fails to parse is saved in front of good rules, and the load after a restart stops at it |
| `mqtt_reconnect` | `FlagMatchesClient` without `regular` | a rejected second `IOTA_Init` has already forgotten the client |
| `mqtt_reconnect` | `OneClient` without `regular` | `RESET_SECRET_IN_PROGRESS` makes a second client without destroying the first |
| `mqtt_reconnect` | `StaysDisconnected` without `regular` | a handler that slept through `IOTA_Destroy` connects after the next `IOTA_Init` |
| `mqtt_reconnect` | `LongBits = 11` | `WaitInBounds`: the limited power times the jitter does not fit, and a wait is negative. So it is in the code with a `long` of 32 bits: 1600 ms * 2^21 is over 2^31, after the 22nd failure |
| `tunnel_overlap` | `OneConnection` without `overlap` or without `timedOut` | two retry loops, or a handshake that completes late, leave a second connection |
| `anomaly` | `ReportsGoOn` without `Spins` | the reader of a closed or never opened descriptor never ends |
| `agent` | `IdsDistinct` for requests not drawn alone | two threads that draw at once get the same id |

### Bounds

* `RuleStore`: two rules and two versions give every order of old, equal and new
  versions and two rules behind each other in a payload. `MirrorBound` caps the
  JSON text, which grows by one entry for each body that fails to parse: two such
  entries are enough for one to hide the other. `store_clean` takes all payloads and
  all files of up to two rules that may lack their head, in the files also the same rule
  twice, and a torn file; `store_faults` takes single rules of every form.
* `RuleEngine` and `RuleTime`: days of 4 seconds, minutes of 2, weeks of 7 days, so that a minute has a second second and ranges cross midnight and the end of
  the week; all 128 sets of days. Ranges are looked at over a week from `Boot`, which begins
  inside one week and ends in the next. The engine runs over the end of a week (`Boot` 24 to
  `Horizon` 29; 27 for the thread that may be late), with one report of the application and one command thread
  whose handler may report.
* `MqttConnection`: two clients, as a leak needs a second one; three calls of
  `IOTA_Init`. Eight faults in regular use and two (`AnyFaults`) otherwise. Times are in units of
  100 ms, with jitters of 800 and 900 ms: the wait reaches its maximum at the sixth failure. The
  power is limited to 6, not 31, and a `long` has 12 bits: the limit is reached with a fault to spare, and the
  product there, at most 17 * 2^6, needs 11 bits, so that one doubling more would wrap. The run
  thus has both ways in which the code keeps a wait in bounds, the limit of the power and that of the
  wait; without the first (`PowerUnlimited`) the eighth failure wraps.
* `MessageDispatch`: all lists of up to three services of every kind for each of the three
  loops, and lists at and over the limits (4 services, 3 events); all topics of up to two
  marks with every form of payload, with and without an object in it; two lists one after the other;
  callbacks set one by one, and all of the events' by `SetTagEventsOps`; two threads with ids up to
  2 and four increments, so that the counter wraps while requests are open. These are
  four scenarios of one run, as a message's handling does not depend on the requests.
* `AnomalyDetection`: a ring of two, an interval of one second, two lines that repeat up to
  twice, so that one line fills the ring; three messages; one task of each kind (plain,
  with a descriptor, with the ring). Failed logins, failed logins with a fault, or file events with two
  faults, a fault being a restart or a file that cannot be opened. The buffer of the monitor has 4 units as in the code and events are of
  1, 2 or 5 units, which gives one read of two events, further reads, and an event that does not fit.
* `Tunnel`: two notifications, two connects per loop, two requests for a shell: a second
  of each is what overlapping needs.

### Fairness

A thread that is inside an operation is scheduled again (weak fairness per
thread): POSIX threads run. What the application calls, and what the platform
sends, is not fair. In `MqttConnection` the library resolves a connect that is
under way (a connect has a timeout) and faults are finite, which is what "until
the connection is successful" needs; a thread that waits for `g_loginLocker`
gets it even if others use it again and again (strong fairness): its sections are
short and the application's calls are far apart. In `RuleEngine` the horizon ends
behaviours, so deadlock is not checked there.

In `Tunnel`, as long as some thread in a handler can go on, one does; waiting for a connect ends,
as noPoll answers or the wait times out. In `AnomalyDetection` the MQTT thread finishes a message
and the reporting thread runs. Notifications, messages, logins, losses and restarts are
not fair. The environment's supply of these is bounded, so that `Tunnel`, `AnomalyDetection` and
`MessageDispatch` may come to rest, and deadlock is not checked there.

## 4. Proofs

`RuleStoreProofs` proves, for all sets of rules, versions, payloads, shadows and
files, with or without faults (assumption: `StoreAssumption`):

* `TypeCorrect`, `MutexMatchesSections`, `NoDuplicateRules`, `NextSaveIsComplete`:
  the invariants `TypeOK`, `LockMatchesSections`, `UniqueIds`, `MemoryInMirror`;
* `StoreImplementsMap`: `Spec => Map!Spec`, the refinement of `RuleMap`.

All rest on `Invariant`, that the conjunction of the four is inductive. None of
the last two is inductive alone. A list operation acts only for a thread in its
critical section, so uniqueness and the relation of the lists need types only;
but that `MemoryInMirror` survives the removal of a replaced rule needs
`UniqueIds`: `Without` cuts out the *first* entry of that name from each list, and
only because memory holds no second one does the remaining memory not need the
entry that was cut. The lemmas on `Without` (one entry less, others kept in
order) come first, then `StoredFacts` and `DeletedFacts` on what storing and
deleting do to both lists, then one lemma per part of the invariant with a step
for each action. `MapStep` shows that each step is an install of a strictly newer
version, a removal, the loss of everything at a restart, or a stutter.

* `RulesOutliveRestarts`: `Undisturbed /\ Spec => RestartKeepsRules`. `Undisturbed` is what
  `store_clean` assumes of its constants: storage is enabled before messages come, the file exists
  and can be opened, no body fails to parse, and the power does not fail during a save. Each of these is
  needed, as the table in section 3 and `store_tornsave` show. Rules without id or version
  are allowed, and so are repeated rules in the file at the start.

Its invariant `KeptInvariant` says that the JSON text is the list of rules in force
(`ListsAgree`), that storage is loaded before the mqtt thread works (`StorageComesFirst`),
and that the file, loaded again, gives the rules in force, or those of before the update under
way, while a load under way stands where the loop over the file stands (`FileAgrees`). It needs what the loop
makes of any file. `LoadingRuns` shows that the recursive function of `Loading` exists and what its
steps are; `LoadsItself` that a list of different rules that all parse is loaded as
it is, which is why what was saved comes back; `LoadStands` follows a load rule by rule. These are inductions over
the rules, done by a least counterexample in a set of numbers (`UpTo`).

`BruteForceProofs` proves, for every size of the ring, interval and number of repeats
(assumption: `RingAssumption`, in which the clock is set: the zeros of a cleared ring are
long past):

* `RingTypes`; `RingHoldsTheLatest` (`RingIsRecent`): read from the oldest index on, the ring
  is the latest failures in order; `AlarmTellsReadBurst` (`AlarmIsReadBurst`): an alarm is raised
  exactly if as many failures as the ring holds were read within the interval. These are times of
  reading; of when the logins were tried it says nothing (section 5).

The inductive invariant `RingInvariant` adds to types and `RingIsRecent` that times do not
decrease (`TimesInOrder`), what the line in hand still has to store (`LineInHand`), and what the
ring is between taking a slot, filling it and wrapping the index (`RingWhileTaken`): `Look` compares only the
record that is about to be overwritten with the new one, which is exact because of
the order of all others.

`BridgeProofs` proves, for every limit of the counter and any number of threads
(assumption: `BridgeAssumption`):

* `BridgeTypes`; `IdsStayInRange` (`IdsInRange`); `IdsTellRequests` (`IdsDistinct`): two
  open requests that were drawn alone, less than a whole round of the counter apart,
  have different ids.

Neither is inductive, since racing threads may carry the counter beyond the limit. The
invariant `IdInvariant` says that whoever saw it there still has the reset before him
(`WrapPending`), that a thread drawing alone is the only one (`AloneIsOnly`) and reads its own
store (`AloneReads`), and that numbers of draws and ids go together round by round
(`CountedInRange`, `NotTooFar`, `CountedDistinct`).

`MqttConnectionProofs` proves, for every number of clients, calls and faults:

* `TypeCorrect`; `ClientExists` (`NoDanglingClient`), in every use of the API; and in regular
  use `FlagTellsClient` (`FlagMatchesClient`), `NoSecondClient` (`OneClient`) and
  `SilenceAfterDisconnect` (`StaysDisconnected`);
* `WaitsInBounds` (`WaitInBounds`): after any number of failures, under `WideLong`: a `long`
  in which the jitter times any power up to the limit does not wrap. One of 64 bits is such, one of 32 bits is not (section 3).
  `PowerAssumption`, that powers of two are positive numbers, is arithmetic that the provers lack.

`ConnectionInvariant` adds that in regular use `g_loginLocker` is held exactly by the thread
inside `MqttBase_CreateConnection` (`LoginLock`) and that a thread about to create a client found
none there (`NoneToCreate`): `OneClient` alone says nothing of a thread between that look and
the creation. `StaysDisconnected` needs more: a handler that slept through `IOTA_Destroy` finds
neither parameters nor key (`Fresh`, `Destroyed`), no handler is at work while the device is
connected (`UpIsQuiet`), and none that could connect a device that is not wanted (`Silent`).

`RuleEngineProofs` proves, for every list of rules, any number of reporters and command threads,
and every length of minute, day and week (assumptions: `ClockAssumption`, a day has two minutes
or more; `EngineAssumption`, the engine does not start in the first minute of 1970):

* `EngineTypes`; `DailyOnce` (`DailyAtMostOnce`): the invariant `DailyRecord` says that what
  executed on a day of the week is recorded in `lastExecutedTime` for that day, and was in its
  minute. The later of two instants in one minute is then too near to the recorded one to be due;
* `OnSchedule` (`TimersOnSchedule`): the invariant `ScheduleKept` says how far the timer thread has
  come when its rounds are prompt and that what it executed is the schedule up to there.
  It needs `DailyRecord`: a second round in the minute is not due because of the record;
* `ReportsTrigger` (`ReportTriggers`): the invariant `CacheFollows` says that as long as no two
  reports overlap there is at most one report between its first write of the cache and the end
  of its round, and that the cache has its entry and no other of its service. Without the
  second part an old value in front would be found first;
* `RangesAreWindows` (`RangeIsUnionOfWindows`); its lemma `RangeMeansWindows` is the same for all
  instants, where the property looks at one week.

`LeastNatural` there is a way around induction: a property of natural numbers that fails has a
least counterexample, by the library's theorem on well-founded orders.

`AnomalyDetectionProofs` proves, for every list of tasks (assumption: `AnomalyAssumption`):

* `AnomalyTypes`, `NoResourceIsLost` (`ResourcesFollowChecks`), `SettingsAreKept`
  (`SettingsSurvive`). `AnomalyInvariant` follows the handler of a message through its loop:
  the flags before `nth` are set (`FlagsSet`), the thread runs or is being joined
  (`ThreadFollows`), the descriptor follows the old flag before its hook and the new one after
  it (`MonitorFollows`), and the file has what is wanted or is being written (`StoreFollows`).
  `ResourcesFollowChecks` itself is silent in the loop, so it is not inductive;
* `NoEventIsDropped` (`AlarmTellsEvents`): a report of the monitor has its alarm exactly if it took events off
  the descriptor, for every buffer, all sizes of events and any number of reads. `EventsFollow` says why:
  the index is 0 until a first read was looked at, which sets the alarm, so whatever a later read skips, the
  alarm is set;
* `RingInComposition` and `AlarmInComposition`: the ring's properties hold in the composition, whose
  steps are those of `BruteForce` or leave the ring alone (lemma `AnomalyImplementsRing`).

`MessageDispatchProofs` proves, for lists of every length, every limit and every order of
registrations (assumption: `DispatchAssumption`):

* `DispatchTypes`; `OwnStringsAreShown` (`ShownIsOwn`): a callback is shown the strings of the
  service itself, or NULL, or a freed one, and that only behind a service for the SDK; `ListStringsAreFreed`
  (`ListStringsFreed`): nothing that was printed for a list of services is left when the handler returns, on
  whichever path, except strings of the three kinds that the code never frees.
  The invariant `ThreadInvariant` describes the loop: the allocated strings are those of the
  `i` places taken (`Allocated`), each place is of a service before `k` (`Placed`), and the place
  after them may be left over from a service for the SDK. `ShownIsOwn` is about calls that were
  made, which says nothing of the array before its call;
* `MessagesAreDelivered` (`Delivered`) and `UpdatesAreHandedOnce` (`UpdatesOnce`), for lists of any
  length and callbacks set or cleared at any time. Of an event both stop at its first service that fails. Both are about states in which a handler has
  returned. `DeliveryInvariant` says for each place of the handler what was called and handed on
  by then; in the loop over a list (`LoopDelivers`) it is what the services before `k` ask for, and
  the places taken are the listed ones of these services, in order. The calls grow by those of one
  service per step, and so does what is due (`EventDueNext`), with later turns than all before; the lemmas
  on `Carry` say that this keeps calls and dues in step, and that a call that is not
  made because nobody registered for it is not missed. `Wiring` is needed beside it: before
  `onMessageA` is set, only callbacks that do not set it are registered, of which `Delivered`
  says nothing;
* `RangeInComposition` and `AnswersTellRequests`: the properties of the ids hold in the composition,
  whose steps are those of `Bridge` or leave the requests alone (lemma `DispatchImplementsBridge`).

`TunnelProofs` proves, for any number of connections, contexts and sessions (assumption:
`TunnelAssumption`; the sets of contexts and sessions are finite, since a fresh one is counted):

* `TunnelTypes`, `OneConnectionAtATime` (`OneConnection`), `LostTunnelIsNoticed`
  (`ClosedIsNoticed`), `NoShellWithoutTunnel` (`ShellNeedsTunnel`).

The three are about states between handlers and none is inductive. `TunnelInvariant` has which
thread may be where (`Roles`), how contexts, connections and sessions refer to each other
(`Linked`), how many were given out (`Counted`), and, until two handlers overlap, what the one
thread inside a handler has made sure of at its place (`Undisturbed`): there is no other such
thread (`Alone`), `g_Conn` belongs to `g_Ctx` and is the only connection with a listener
(`Current`, `KnownIsCurrent`), what `WssClientCreate` (`Creating`) and the loop thread (`Looping`)
know of `g_Conn` and the session, and that outside handlers `g_Conn` is alive and heard
(`Rest`).

Only model-checked is liveness (`OperationsEnd`, `RoundsEnd`, `Reconnects`, `CallsEnd`, `HandlersEnd`,
`ReportsGoOn`, `TamperIsReported`), which needs fairness and `ENABLED`. Every invariant, every
action property and every refinement of the passing runs is a theorem; where the property
has a condition on the constants (`WideLong`, `Undisturbed`), section 3 shows what
breaks it otherwise.

## 5. Seen while modelling

Weaknesses of the code that no run is about. Those that limit a property are its
condition or its exception: such a property does not catch the weakness, it shows that there is no
other way to break it. These are `raced` (`RingIsRecent`, `AlarmIsReadBurst`), `torn` (`SettingsSurvive`), `Spins`
(`ReportsGoOn`, `TamperIsReported`), `overlap` and `timedOut` (`OneConnection`, `ClosedIsNoticed`), `overlap` and
a free command thread (`ReportTriggers`), `regular` in the connection, `alone` (`IdsInRange`, `IdsDistinct`), the freed string in
`ShownIsOwn`, `Unfreed` in `ListStringsFreed` and `Reached` in `Delivered` and `UpdatesOnce`.

* Tunnel: a first connect that fails starts a retry loop on the closing thread beside
  that of `WssClientCreate`. Failed retries leak connections. The ping thread may use a
  connection that `CloseOld` freed. The reader of an old session survives the making of a
  new one, and output read before a loss goes to the next connection. Fragments of a
  message are never joined, as `preMsg` is a local variable.
* Detection: the descriptor is closed before the task's flag is cleared, and one that could
  not be opened (-1) is read all the same; both make the reader spin. A check
  switched on while a line is in hand clears the ring under it (`raced`). Cancelling in the middle of a publish
  may leave a mutex of the library locked. `InotifyReadEventsAndIterate` takes a `va_arg` per event although
  one was passed, and does not set its index back for a second read (`detect_anomaly.c:268`, `:282`), so that events are
  skipped: only the alarm that the first read has set makes up for it. An event with a name, as a watched directory
  gives, may not fit the buffer of four bare events; `read` then fails with `EINVAL` for ever.
  A failed login is dated when its line is read (`detect_anomaly.c:590`), and reports are minutes apart, while the
  constants are for logins "5 times in 10s" (`:68`): five failures spread over the time between two reports raise the
  alarm, and a burst that two reports share may not. `AlarmIsReadBurst` says what the code does.
  `LocalLoginCheckUtmpxItem` never sets its flag. Lines of a log that was rotated are skipped.
* Dispatch: `SetDeviceConfigCallback` alone does not set `onMessageA`, so that nothing arrives
  (the README asks for no more). A configuration is reported as successful when there is no callback
  for it. A shadow entry that lacks what a rule entry before it had shows a freed string
  (the exception in `ShownIsOwn`). The reported time overwrites the desired one. An event that
  is left in the middle leaks what was built, and drops the rules behind the service that fails (`callback_func.c:1412`).
  Never freed are the `content` of a message printed from an object (`:184`), the `paras` of a new secret (`:764`) and the
  `bus_infos` of a soft bus event (`:1274`; only their structure is, `:1351`). More than ten sub-devices give the callback
  an array that was not filled. Answers to an update of sub-devices are delivered as answers to a deletion.
* Bridge: callers that race may share an id or see one beyond 65535. `Birdge_SetTopic` falls off its
  end. `IOTA_BridgeDeviceLogin` goes on after a failed payload.
* Connection: `MqttBase_destory` frees the parameters without `g_loginLocker`, under which
  `MqttBase_CreateConnection` reads them.
* Rules: a `DynamicArray` that is popped when empty destroys the element before its first.
* OTA: `IOTA_IotRead` does not return the result of its writes, and takes the header of the answer to
  be complete in the first read; a download that ends early is reported as complete.

## 6. Not modelled

* Text: JSON, topics, times and payloads are abstract, as are the fields of a payload that are
  copied into a structure for a callback.
* Failing memory allocation; with it the dynamic arrays of the rules, which are sequences here.
* Certificate mode and bootstrap of the connection; results of publish and subscribe, which
  are passed on.
* Publishing (`iota_payload.c`, most of `iota_datatrans.c`, `data_trans.c`): each function builds a
  text around one call of the MQTT library and keeps no state.
* OTA and file transfer: one sequential thread of library calls.
* Soft bus (its platform is not in the repository), system abstraction (reads of `/proc`), logging,
  HMAC, string utilities: no state of interest.
* Vendored code and demos. Most lines under `include/` are headers of OpenSSL, curl and
  Paho, and the demos are examples of use; what the SDK relies on in the libraries is stated
  as external where it is used.

## 7. Plan

1. `RuleSync`: platform, shadow and store with lost and repeated messages; does the store
   converge to the desired versions?
2. `RuleStore` and `RuleEngine` composed: both hold `g_ruleMutex` throughout their steps, and the
   product of their instances is beyond TLC, so this is a matter of a proof.
