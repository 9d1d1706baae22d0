# Verification of the LineageOS hardware interfaces

TLA+ models of the hardware interface services in this repository, TLC
configurations that check them on small instances, and TLAPS proofs. The
development covers the ADPF (performance hint) half of the power HAL, the two USB
HALs with worker threads, the AIDL fingerprint service, the touch injector, the
camera session and provider, the radio wrappers, the sensors sub-HAL, the charging
control and the lights.

To check: `tlc -workers 2 -config X.cfg M` for each run in `PROJECT.json`,
`tlapm M.tla` for each `*Proofs` module.

## 1. The system

The repository is a collection of independent HAL services. They do not talk to
each other; each is called by the framework over binder or hwbinder and drives
device nodes, sysfs, an older HAL or a vendor library.

| Part | Threads | What is hard |
|---|---|---|
| power: SessionTaskMap | under one mutex | pointer identity, duplicates, consistency of two mappings |
| power: PowerSessionManager, PowerHintSession | binder, one per channel group, worker | calls made of several locked sections; shared threads; clock read outside the lock |
| power: BackgroundWorker | callers, worker | id read after unlock; timeout against re-vote |
| power: InteractionHandler | callers, DispIdle | condition variable, poll with aborts, unlocked reads |
| power: ChannelManager, ChannelGroup | callers, one per group, clients | lost wake-ups, join, slot and id reuse |
| power: SessionRecords | under the session's lock | ring indices, sliding windows, resets |
| usb: Type-C, dual role | hwbinder, worker, kernel | timeouts against uevents, directory read in two passes, end of the worker |
| fingerprint (AIDL) | binder, vendor notify thread, detached timers | flags without a lock, timers that outlive a lockout and a session |
| touch injector | binder threads, tokio tasks | state read before an await; two devices merged into one stateful protocol |
| camera: session, ResultBatcher | three binder threads, one HAL thread per kind of answer | calls made of several locked sections, results of a batch in any order, failures half-way |
| camera: provider | binder, module's callback thread | reports during enumeration and without a callback |
| radio 1.4 wrapper | hwbinder | a substitute for every method an old modem lacks, conversions there and back |
| radio config wrapper | hwbinder, radio services that die | several services told one after the other |
| sensors sub-HAL | poll thread, proxy | poll thread started before its callback is set, reused vector |
| health: charging control | one | nodes that appear late, or after their turn |
| lights | one | five lights on one LED with three ways to blink; writes that fail half-way |

`PROJECT.json` lists every part with its status and every hazard at its line.

In the power HAL, `service.cpp:55` gives the service one binder thread. Beside it
run the worker `adpf_handler` (a pool of one), one thread per channel group, and
`DispIdle` of the InteractionHandler. Calls on a session hold that session's
`mPowerHintSessionLock`; everything on the mapping and the votes runs under
`mSessionTaskMapMutex`, which is released and taken again several times in one
call. The other services are alike in kind: in each, the models follow the code
from one unlock, await or callback to the next, and these stretches interleave.

## 2. Modules

| Module | Models | Composition |
|---|---|---|
| `SessionLinks` | what SessionTaskMap promises: one relation | abstract specification |
| `SessionTaskMap` | `SessionTaskMap.cpp` with the objects its pointers name | implements `SessionLinks` |
| `InteractionHandler` | `InteractionHandler.cpp` | |
| `VoteTimeouts` | `BackgroundWorker.h/.cpp`, the scheduling half of `PowerSessionManager.cpp` | |
| `SessionRecords` | `SessionRecords.cpp`, the heuristic states of `PowerHintSession.cpp` | with the sliding window it stands for |
| `PowerSessionManager` | `PowerHintSession.cpp`, `PowerSessionManager.cpp`, `UClampVoter.cpp` | composes sessions, map (as in `SessionLinks`), worker and callers |
| `ChannelManager` | `ChannelManager.cpp`, `ChannelGroup.cpp`, `SessionChannel.cpp` | manager, groups, clients |
| `UsbTypec`, `UsbDualRole` | `usb/1.1-typec/Usb.cpp`, `usb/1.3-dual_role_usb/Usb.cpp` | HAL and kernel |
| `Fingerprint` | `Session.cpp`, `LockoutTracker.cpp`, `Fingerprint.cpp` (aidl) | service, vendor library, timers |
| `TouchInjector` | `binder_service.rs`, slots of `touch_emulator.rs` | clients and service |
| `TouchMerger` | `touch_merger.rs`, `touch_emulator.rs` | source, emulator, virtual device |
| `CameraDeviceSession` | `CameraDeviceSession.cpp` without its batcher | framework, session, HAL |
| `ResultBatcher` | `CameraDeviceSession::ResultBatcher` | session and HAL |
| `CameraProvider` | `CameraProvider.cpp` | module and framework |
| `RadioRequests`, `RadioResponses` | `Radio.cpp`; `RadioResponse.cpp`, `RadioIndication.cpp` | tables of what is passed on, operators only |
| `Radio` | the wrapper's state between them | client, wrapper, modem |
| `RadioConfig` | `radio/config/1.1-wrapper/RadioConfig.cpp` | wrapper and radio services |
| `Sensors` | `SensorsSubHal.cpp` | module, sub-HAL, proxy |
| `ChargingControl` | `ChargingControl.cpp` | |
| `LightDevices`, `Lights` | `light/devices/*`; `Lights.cpp`, `Devices.cpp` | operators on nodes; service |
| `*Proofs` | theorems on the module named | |
| `MC*` | instances for TLC | `MCPowerParts`, `MCServices`, `MCTypecAndSensors` and `MCDevices` put modules that share no state side by side |

**SessionTaskMap.** `mSessions` and `mTasks` are the two mappings, `heap` the
`SessionValueEntry` objects. `remove` compares pointers and `replace` makes a
new object, so the allocator is modelled: it returns any address nobody holds.
Thread lists are bags because a client may name a thread twice. One action per
operation; `removeDeadTaskSessionMap` includes the erasure by its caller.

**InteractionHandler.** `Acquire` and `Exit` against the steps of `Routine`,
each stretch under `mLock` one step. Time is relative to the last `Acquire` and
to the poll in progress, so there is no horizon. `Wrap` stands for 2^32: the
signed sum of duration and offset is compared as an unsigned number. `owed` is a
history variable for the promise to callers. The hint is `hint`. An `Acquire`
before `Init` is served with a hint of its own and not modelled; `Init` and
`Exit` happen once, as in the service.

**VoteTimeouts.** `schedule()` is three steps (`Emplace`, `ReadCounter`,
`Enqueue`) because the id is read after the unlock. `overlapped` is a history
variable that records that two calls overlapped there. The handler keeps
`mSessionTaskMapMutex` while it requeues. A vote may have several events in the
queue, since `shouldScheduleTimeout` asks for another when the deadline moves
forward; the comment at `PowerSessionManager.cpp:471` speaks of a single one.

**PowerSessionManager.** A call is a job, the list of its sections; each
section is one action, so sections of different calls interleave. The clock is
read outside the mutex: a section uses any time since the previous one ended.
The worker may retire any vote whose timeout has passed, in two sections as in
`handleEvent`, unless its event is lost. `schedule()` can lose the event of a vote
when another call overlaps it (`unique_ids`): `lost` is the set of votes in force
without an event, filled by `Scheduled` for the votes in `Losable`, and a vote leaves
it when it gets a new event or is switched off.
Abstracted: uclampMax (and so `confine`), the PID controller and the thresholds
of the heuristic boost (a report may choose any level), metrics, dumps and traces.
Switched-off votes are normalised, since their times are not read again.

**ChannelManager.** The group thread's steps follow `runChannelGroup`; a channel
group's event flag is named by its first channel, since a later group with the
same id has another. Queue and flag are external (libfmq): `Write`, `Wake`,
`Wait` and the read in `Scan` are modelled from their use.

**SessionRecords.** `addReportedDuration` is one turn of the loop of
`addReportedDurations` (the loop itself adds nothing). `window` and `recent` are
the reference: the last frames as they were reported. `disturbed` records that a
reset, or a frame that does not count, fell into the sum of start intervals.

**UsbTypec.** `switchMode` writes the mode and waits under `mPartnerLock` with
`mRoleSwitchLock` held; its timeout (external: the clock) may come at any moment.
A report lists the class directory and reads the attributes in a second step, both
under `mLock`; when a partner is gone by then it names only some of the ports. The
ports share `mPartnerUp`, `mRoleSwitchLock` and the worker. The worker's loop tests
`destroyThread` and enters `epoll_wait` in two steps, and a partner's uevent is
received and signalled in two. A mode file may refuse a write, or take it without
effect. History: `stale` (a partner's uevent was in the socket or in the worker's
hands when the switch began), `since` (a partner was attached, to any port, after the
write), `skipped` (ports that nobody will make dual: the write failed, or the worker
found `mRoleSwitchLock` taken).

**UsbDualRole.** `getTypeCPortNamesHelper` counts links and lists them in a second
pass; ports come and go between the passes and between the listing and the reading
of roles. `crashed` is the end of the process, when the switch's report meets a
null callback.

**Fingerprint.** Nothing is under a lock, so whatever reads a flag and writes one
later is two steps, and both the binder and the vendor's thread run
`checkSensorLockout`: read the mode (which may end a timed lockout in a step of its
own), report it, then set the abort flag, or test the started flag, start a timer and
set the flag. Two timers are enough for two threads that both find none started.
`LockoutTracker` does not initialise its mode: the first mode is whatever memory held.
History variables: `raced` (a `Collision`: a timer expires while a thread is inside
`checkSensorLockout`, there are two timers, or an attempt is counted while `getMode`
ends a timed lockout), `muddled` (the flags misled a timed lockout about its timer),
`undone`, `dropped`, `late`, `lingering`.

**TouchInjector, TouchMerger.** A binder call looks at `slot_range_map` first and
then waits for the emulator's mutex: two actions. `overtaken` records that a call
acted on a registration that had changed. A Rust panic aborts the process.
`TouchMerger` keeps the kernel's view of both devices (external) to compare the
merger's with.

**CameraDeviceSession, ResultBatcher.** A request is checked, imports its buffers,
records them and calls the HAL in separate steps; configurations, close, flushes and
results come in between. On a 3.2 device a precapture cancel is sent as idle, with
the AE lock on where the device has one and the request left it off; the result shows
what was asked (`applyAeLock`). Physical settings that are refused leave the request's
buffers in the in-flight record (`leftover`), and every later configuration is turned
down. `overlapped` records that a configuration or close ran
inside another call, which the framework's lock rules out and the code does not.
In the batcher each answer is looked up, applied and followed by the removal of the
first batch in three steps, on a thread per kind of answer. `early` records that an
answer overtook `registerBatch`, which the code calls after the requests.

**CameraProvider.** `initialize` sets the module's callbacks before it enumerates,
so reports interleave with each camera it adds. `overwritten` and `unnoticed` record
the two cases in which a report is lost: by the "present" that `initialize` writes,
and when a camera leaves while no callback is registered.

**Radio.** `Routed` and `Passed` in `RadioRequests` say for each request and modem
version which method of the modem is called, if any, and with what; `RadioResponses`
does the same upwards. The
network type conversion works on sets of radio access families in place of bit
masks. The modem is external.

**RadioConfig.** `setPreferredDataModem` tells one radio service at a time; a
service may die between any two, and the wrapper with it. `missed` records that a
switch could not reach a modem because a lower slot had no service (the count of
slots ends at the first one missing).

**Sensors.** The vector of events that survives from batch to batch is `out`. A poll
may return no event.

**ChargingControl.** The constructor waits for a node of each of three features in
turn, `OPEN_RETRY_COUNT` times for each candidate; `Appear` makes a path accessible at
any time. Writes follow once it is up; the second of a limit's two may fail.

**LightDevices, Lights.** A LED is the set of nodes in its directory; the functions of
`LightDevices` say what the nodes hold after each write, in the order of the code, with
the kernel's own effects (a brightness of 0 drops the trigger, the timer starts with
delays of its own). In each update one node may fail: `failed` counts the last updates
of the notification LED in which one did. The five Qualcomm nodes count as one, whose
content is the value and the timing they were made from.

## 3. Runs

| Run | Distinct states | Instance | Checks |
|---|---|---|---|
| `power_parts` | 152,283 | map: two sessions, two threads; handler: durations of up to four ticks; timeouts: one session with a default and a boost vote; records: a ring of four, seven frames | `MapSound`, `ImplementsLinks`; `HintSound`, `ReleasedOnlyWhenDue`, `RoutineProgress`; `VotesAccounted`, `NoEarlyRetirement`, `VotesRetired`; `RecordsMatchWindow`, `JankJustified` |
| `boosts` | 817,044 | two sessions sharing two threads, binder and channel thread | `NothingLeftOver` |
| `boosts_binder` | 366,886 | binder thread only | `LinkedProfiled` |
| `boosts_end` | 298,951 | one session, GPU votes, ramp-up, a thread that exits, events that are lost | `BoostsEnd` |
| `channels` | 122,554 | three clients, groups of two slots, three messages, unreadable queues | `SlotsSound`, `MessagesExact`, `CloseReturns`, `MessagesHandled` |
| `services` | 599,743 | touch injector and merger, radio, camera session, batcher and provider, lights with failing writes | `ScreenMirrors`, `SlotsInStep`, `ClientServed`, `CarriedOver`, `CachesMatchStreams`, `InflightAccounted`, `CallsInOrder`, `ResultsAsAsked`, `SentUpFaithfully`, `NothingLeftBehind`, `CamerasKnown`, `LedShowsFirstLit` |
| `typec_and_sensors` | 153,642 | Type-C HAL with two ports, radio config with three slots, sensors | `SwitchSuccessful`, `PortFollowed`, `CallbackCleared`; `OneDataModem`; `BatchesExact` |
| `devices` | 136,868 | dual role HAL with two ports, fingerprint, charging control | `ScanComplete`, `ReportsCurrent`; `PermanentKept`, `UpcallsMatchSession`, `LockoutEnds`; `ControlComesUp` |
| `unique_ids` | violation | as in `power_parts` | `UniquePackageIds` |
| `fps_sum` | violation | as in `power_parts` | `FpsSumOfLastFrames` |
| `stale_time` | violation | two sessions on one thread | `BoostsApplied` |
| `gpu_votes` | violation | one session with GPU votes | `GpuVotesUndone` |

Several properties are conjunctions: their parts are named in the module, each with
its own comment, and say one thing about one piece of state together
(`MapSound` is `MapTypeOK`, `MappingsConsistent` and `PointersResolve`, for
example).

Many properties have an exception, a history variable that records that the code
met a case it does not handle (`overlapped`, `overtaken`, `raced`, `muddled`, `early`,
`stale`, `skipped`, `lost`, `missed`, `overwritten`, ...). The exceptions are as narrow as the code
allows: each names the interleaving, and outside it the property holds.

### What the violations show

* `unique_ids`: two overlapping `schedule()` calls queue the same id
  (`BackgroundWorker.h:113`). One package stays for ever and its vote's timeout is
  lost. `VotesCovered` and `VotesRetired` are therefore stated for behaviours in
  which no two calls overlapped there.
* `fps_sum`: `resetRecords` keeps the sliding sum of start intervals and its
  counter, and frames outside the game mode or without interval do not count. After
  one of these, `SessionRecords.cpp:96` subtracts records that are not in the sum,
  which then is not the sum of the last frames. `FpsSumUndisturbed` is the same
  statement for behaviours without them; it holds.
* `stale_time`: `handleEvent` applies the votes as of a time read before it
  waited for the mutex, and so takes away a boost that started later. It comes
  back with the next vote or report that applies the thread's votes.
* `gpu_votes`: closing a session leaves the GPU with the capacity it voted for.

### Bounds

* Two sessions on two threads are the smallest instance in which a thread is
  shared and another is not. Three addresses suffice for two sessions and the
  copy `replace` holds; each allocation then reuses a freed address.
* Durations of the handler: both clamps, values between them and a negative sum
  occur. The handler and the map are unbounded models.
* A ring of four records is filled, wraps and is reset within seven frames.
* `MaxIds`, `MaxCalls`, `MaxChannels`, `MaxMessages`, `MaxTime`, `MaxUevents`,
  `MaxEvents`, `MaxBatches`, `MaxChanges`, `MaxReports`, `MaxFaults`, `MaxFailed`,
  `FailingLights`, `MaxFrames`, `MaxTurns` and
  the counts in `Uses`, `Owners` and `Conversations` bound clients, kernel, HALs and
  clock. When they are used up the outside is silent, so `CHECK_DEADLOCK FALSE` is
  given there; `power_parts` checks deadlock, its bounded parts rest with a step of
  their own (`AtRest` in `MCPowerParts`).
* Four calls let one session's call race another's on a shared thread after both
  were created; timeouts fall due within them. In `boosts` the fourth is made only
  while the sessions have one thread between them.
* Channels: the second group is made, destroyed and reused by clients that send
  nothing; batches are three messages on one channel; and slots are reused while
  messages of two of three channels are on their way.
* Touch: two slots of each device, two clients, two calls at once; an emulator
  with fewer slots than clients may ask for.
* Radio: every request alone on every version of the modem, and conversations of
  two requests where one reads what the other wrote. Bitmaps: all unions of groups,
  incomplete groups and a family without group.
* Camera: old and new devices, both ways of freeing buffers; two configurations with
  two frames, three with one and a close or flushes, and one with two frames of which
  each may have physical settings that are null or corrupt. Batcher: two
  batches of two frames and one fault.
* Dual role: two ports that come and go, a client of the oldest interface and one of
  the newest. Fingerprint: thresholds of one and three failures; five owners, who
  reach the permanent lockout, are locked out twice, start from memory that held
  another mode, open a second session, or have two fingers enumerated. A lockout is
  not followed any further once its properties make their exceptions.
* Type-C: one port with a client that comes and goes and all calls; two ports with a
  client that stays, of which one is switched.
* Lights: white LEDs of two kinds, RGB LEDs of which one or two are missing, that blink
  together, or whose colors are snapped, and LEDs and backlights behind keys and screen;
  at most two of the five lights are on at a time, and one update in a row fails, of the
  notifications (a failure is alike for each light).
* `boosts` and `boosts_binder` use symmetry of threads. They check no liveness.

Runs that put modules side by side explore each module by itself, since the others
rest; the states add up and do not multiply.

### Fairness

* Weak fairness of a call once begun: the thread that runs it is not blocked
  except by mutexes, which are held for single steps.
* Weak fairness of the worker, of `Routine` and of group threads: each has a
  thread of its own. `Routine` is only required to leave a poll when it is
  aborted or its time is up; nobody promises that the display becomes idle.
* Weak fairness of the clock.
* Weak fairness of a client's `Wake` after its `Write`: the protocol of the
  shared queue.
* Type-C: weak fairness of the worker, of a call begun, of the timed wait and of the
  signal handler; strong fairness of the worker's query, which competes with the
  binder thread for `mLock` (a `pthread_mutex` waiter that finds the lock free again
  and again gets it). Dual role: the same for `QueryLocked`.
* Fingerprint: weak fairness of the timers, of a check or message begun and of the
  rest of `resetLockout`.
* Charging control: weak fairness of the constructor; nothing says that a node appears.
* Clients, kernel, vendor libraries and modems are never required to act.

## 4. Proofs

| Theorem | Statement | Assumptions |
|---|---|---|
| `SessionTaskMapProofs!MapStaysSound` | `MapSpec => []MapSound` | a thread list counts threads |
| `SessionTaskMapProofs!MapImplementsLinks` | `MapSpec => ImplementsLinks` | the same |
| `InteractionHandlerProofs!HintStaysSound` | `HandlerSpec => []HintSound` | minimum duration positive and not above the maximum |
| `InteractionHandlerProofs!HintHeldLongEnough` | `HandlerSpec => ReleasedOnlyWhenDue` | the same |
| `VoteTimeoutsProofs!VotesStayAccounted` | `Spec => []VotesAccounted` | there is a session and a default vote, which is no boost; deadlines are within the horizon |
| `VoteTimeoutsProofs!HandlerNeverEarly` | `Spec => NoEarlyRetirement` | the same |
| `CameraDeviceSessionProofs!CachesAlwaysMatch` | `SessionSpec => []CachesMatchStreams` | none |
| `CameraDeviceSessionProofs!InflightAlwaysAccounted` | `SessionSpec => []InflightAccounted` | none |
| `FingerprintProofs!PermanentAlwaysKept` | `FingerprintSpec => []PermanentKept` | none |
| `RadioConfigProofs!OneModemHasData` | `ConfigSpec => []OneDataModem` | there is at least one slot |
| `UsbTypecProofs!SuccessMeansPartner` | `TypecSpec => []SwitchSuccessful` | none |
| `SensorsProofs!WakelockAlwaysExact` | `SensorsSpec => []WakelockExact` | wake-up sensors are sensors, the buffer size is a natural number |

The assumptions are the named `ASSUME`s of the modules.

* **SessionTaskMap.** `MappingsConsistent` alone is not inductive: a session whose
  object another session shares could lose the other's references. `MapInv` adds
  that an object names its own session (so no two sessions share one) and that no
  empty vector keeps its key, without which `replace` would report the wrong
  threads as added and removed. Two lemmas say what add and remove do to the
  count `Refs`; the rest of the proof uses only those.
* **InteractionHandler.** `AbortInv` says where `Routine` is while an abort is
  pending, `WaitInv` that in state WAITING nobody changed `mDurationMs` since it
  was read, though it was read without the lock, and `OwedInv` that no caller is
  owed more than the rest of that duration. Together they give the action
  property.
* **VoteTimeouts.** `VotesCovered` needs that a session not yet created has no
  active vote (`FreshInv`) and that the worker does not process while it requeues
  (`WorkerInv`). The proof follows an event through its three places: about to be
  stored, stored and queued, taken by the worker.
* **CameraDeviceSession.** `Caches` is stronger than `CachesMatchStreams`: the
  HAL's streams are configured ones, and so is the one a request is about to import
  a buffer for, else the import would make a cache without a stream. `Numbered`
  keeps the frame numbers of what is in flight below that of the request on its way,
  so a failed request takes back nothing of another; `Overrides` says that the
  request's frame has an AE override only once it was recorded, for a cancel.
* **Fingerprint.** Until the first `Collision` (`raced`) a timer in a permanent lockout
  is aborted or about to be, or there is none and no thread is about to start one, and a
  timer past its test of the abort flag met no permanent lockout (`PermanentGuarded`).
  What is proved of the time after a collision is only that it was one of the three.
* **RadioConfig.** While a switch is under way only the modem chosen and those not
  told yet may allow data (`SwitchedOff`), so that the one allowed last is alone,
  also when the wrapper exits in between.
* **UsbTypec.** `SignsAreSince`: in a switch that began with no partner's uevent in
  the socket or in the worker's hands, whatever shows a partner, `mPartnerUp` or a
  uevent under way, is of one that was attached, to this or another port, since the mode
  was written. `switchMode` cannot tell the ports apart, so no more holds.
* **Sensors.** `BatchKnown`: between poll and post the flag that asks for the
  wakelock is that of the batch in the vector, and the lock is held by then. The
  lemma `BatchReplaces` says that the reused vector holds exactly the new batch.

Only model-checked: liveness (`RoutineProgress`, `VotesRetired`, `BoostsEnd`,
`CloseReturns`, `MessagesHandled`, `PortFollowed`, `CallbackCleared`,
`ReportsCurrent`, `LockoutEnds`, `ControlComesUp`), which needs fairness and `ENABLED`, out of the
prover's reach; `EventsExact` and `RecordsMatchWindow`, whose references are folds
over sequences and would need induction over data; and all of PowerSessionManager,
ChannelManager, the touch injector, the radio wrapper, ResultBatcher,
CameraProvider, UsbDualRole, ChargingControl and the lights.

## 5. Not modelled

The models stand for about 8,000 of the repository's 22,900 lines of code.

Abstracted or left out of what is modelled:

* Data races on library containers: `getSessionTaskProfiles` reads the map without
  the mutex and the blocklist of ChannelGroup is shared without one. Both are
  modelled as if the accesses were atomic. `LinkedProfiled` is checked for calls of
  the binder thread only.
* Power: uclampMax and `confine`, the PID controller (floating point), frame buckets
  and session metrics, GPU and ramp-up nodes beyond the values written.
* Type-C: autosuspend of attached devices, `canSwitchRoleHelper`, failures to create
  a socket or a thread. Dual role: `enableUsbDataSignal`, which writes two files.
* Fingerprint: calls handed to the vendor library that keep nothing in the session.
* Camera session: conversion of metadata and streams, offline sessions (refused by
  the code), dumps, a change of the batched streams while batches are in flight.
  Provider: torch reports, vendor tags, `CameraDevice::open`.
* Radio: acknowledgements and the fields that conversions copy. Radio config: SIM
  slot calls, which are forwarded.
* Charging control: the getters, the supported modes and the paths of a device's own
  build. A limit of which only one value was written stays so: nobody promises
  otherwise, and no property is about it. Sensors: that an event before
  `initialize` does not occur is not promised by the code; it ends the model.

Parts without a module, and why:

* Services that write one node or make one library call per request and keep no
  state that a later request reads: FastCharge, LEDs and power share, vibrator, IR,
  fastboot, game keys, USB basic.
* Power modes and boosts choose hints by name from a configuration; the hint manager
  is outside the repository. LiveDisplay passes modes to the display library.
* Fingerprint 2.0: a wrapper with one callback pointer under a lock.
* DisplayService: its threads and queues are the framework's.
* Formats of sysfs files, dumps, traces, and the `main` functions of the services.
