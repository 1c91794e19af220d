# Doorman: a TLA+ verification project

Doorman (`src/`) is an ESP32 door opener. It watches for paired phones over Bluetooth and
pulses a relay when one of them arrives; a web UI manages it. This directory holds TLA+
modules of its core logic, the TLC runs that check them and TLAPS proofs about them.
Every definition is translated from the source; `PROJECT.json` names the lines.

## 1. The system

### 1.1 Components, their state and their operations

| Part | Source | State | Operations |
|---|---|---|---|
| State machine | `components/statemachine` | table of 15 device slots (flags, stamps, ring of 10 observations, configuration) | `feed`, `tick`, `update_device_config`, `remove_device`, `dump_states` |
| SM task | `main/bt/sm_task.cpp` | queue of 16 messages, virtual clock, snapshot | drain, tick, suppress or forward an Unlock |
| Control task, relay | `main/door/control*.cpp` | queue of 4 commands, pulse flag, pin | take a command, 500 ms pulse |
| Auto-unlock switch | `main/door/auto_unlock.cpp` | one bool, in RAM and NVS | read, set |
| Bluetooth manager | `main/bt/manager.cpp` | radio flags, command queue of 4, bond caches, negative cache | open and close the pairing window, scan, advertise, probe, resolve private addresses, remove bonds |
| Device configurations | `main/device/device_config.cpp`, `components/device` | cache of 15 entries behind a mutex, one NVS blob each | get, set, delete, load, validate |
| Web server | `main/http/server.cpp` | sessions, audit counters, log queue and WebSocket clients | REST handlers, OTA, log streaming |
| Slack notifier | `main/slack/notifier.cpp` | URL, message queue | send, update URL |
| Wi-Fi | `main/wifi/wifi.cpp` | credentials, event group, retry counter | STA, fall back to SoftAP |
| Start, safe mode | `main/main.cpp` | panic counter in NVS | order of the start, skip tasks after 3 panics |
| Auth, monitor, frontend | `main/auth`, `main/monitor`, `frontend` | two strings; none; none | |

### 1.2 How they interact

    phones ~> Bluedroid callbacks --sightings--> s_queue --> sm_task --Unlock--> control queue --> control_task --> relay
                  ^    |                            ^           ^  ^                  ^
         requests |    | flags              removals|    config |  | auto_unlock      | ManualUnlock
                presence_task <--BtCmd-- httpd (REST handlers) ----+------------------+
                                             \--> device_config --> NVS

Tasks share no locks across components: they talk through bounded queues that drop when full,
through atomics (`s_pairing_mode` and the other radio flags) and through two caches copied
under a mutex. A Bluetooth request only posts work; its result comes later in a callback of
another task.

### 1.3 What is hard, and what makes each part correct

* **State machine.** `tick()` returns at its first Unlock with half the table evaluated; time 0
  doubles as "never"; stamps are 32-bit. Correct when every Unlock answers one real arrival,
  no device has two slots, and simultaneous arrivals are all served.
* **SM task.** Switches are toggled between its checks and the pulse; the pairing flag is
  sampled once a tick; configurations arrive with sightings. Correct when nothing gets through
  in the grace period, switched off or pairing; when ticks never stop; and when the virtual
  clock is the time with the window closed.
* **Control task.** Correct when accepted commands are pulsed and the relay is released.
* **Radio.** Flags lag behind the radio. Correct when an opened window can be found, a closed
  one cannot, and scanning resumes.
* **Bond caches.** They are copies of Bluedroid's lists that two tasks refresh, and an index into
  one is used after its lock was released. Correct when each sighting is credited to the phone it
  is of, the copies catch up with the lists, and a bonded phone gets past the negative cache.
* **Device configurations.** Cache first, NVS second, either may be cut short. Correct when a
  restart gives back what was stored and readers see what was asked for.
* **Removal of a device.** httpd asks three tasks for three things and answers OK; queues may
  drop each, sightings are under way, and the chip may be reset. Correct when the deleted
  configuration is in force nowhere and the device is forgotten in the end.
* **Start and safe mode.** The web server is in reach before most of what its handlers use, and in
  safe mode it never will be. Correct when nobody uses what is not there, crash loops end in safe
  mode, and nothing else leads there.
* **Wi-Fi.** The event handler behaves differently before and after main has cleared its event
  group. Correct when a link that was lost comes back with the network.
* **Firmware upload.** A reset may come at any of its steps. Correct when there is always an image
  to start, and when the one that was answered with OK is started next.
* **Failed logins.** One entry and one counter with windows that do not slide. Correct when bursts
  are reported, from one address or from many.
* **Notifier.** Blocks of the heap change hands between httpd, a queue and a task. Correct when each
  has one owner, and when RAM, NVS and the answer agree on the URL.

`PROJECT.json` "hazards" lists these one by one, at the line where each bites, with the
properties that cover it.

## 2. The modules

| Module | Models | Notes |
|---|---|---|
| `Presence` | what the state machine promises | abstract: a set of present devices, one Unlock for each arrival; what differs at time 0 |
| `StateMachine` | the class | one action per method; time is passed in |
| `StateMachineObserved` | the same with history variables | `heard`, `strong`, `early`, `owed`; properties; refinement of `Presence` |
| `StateMachineProofs` | | theorems (section 5) |
| `DoorControl` | control task and relay | extended by `SmTask` |
| `SmTask` | SM task, queues, switches | instantiates `StateMachine` on its virtual clock |
| `SmTaskClock` | `SmTask` with a record of the time the window has been closed | |
| `SmTaskProofs` | | theorems about `SmTask` and `SmTaskClock` |
| `BtRadio` | pairing window, advertising, scan, probes | Bluedroid external |
| `BtRadioProofs` | | theorems |
| `BondCache` | bond caches, identification of sightings, negative cache, pairing, removal | Bluedroid and phones external |
| `BondCacheProofs` | | theorems |
| `DeviceConfigs` | cache, NVS, restart | extended by `DeviceRemoval` |
| `DeviceRemoval` | pairing, configuration and removal of a device, across httpd, Bluetooth and SM task | composes `DeviceConfigs` with abstractions of `BondCache` and `StateMachine` |
| `DeviceRemovalProofs` | | theorems about `DeviceConfigs` and `DeviceRemoval` |
| `Wifi` | `wifi_start`, event handler | driver and network external |
| `Firmware` | `ota_upload_handler`, the choice of the bootloader | flash external |
| `Boot` | `app_main`, panic counter, safe mode, resets | composes `Wifi` and `Firmware` |
| `BootProofs` | | theorems about the three |
| `AuditLimiter` | `audit_401` | |
| `Notifier` | message queue, notifier task, webhook URL | heap and NVS may fail |
| `Alerts` | failed logins and administrative actions that are sent to Slack | composes `AuditLimiter` and `Notifier` |
| `AlertsProofs` | | theorems about the three |
| `MC...` | instances for TLC | constants only |

Correspondence to the code:

* **`StateMachine`.** `slots` is `devices_`. `Feed`, `UpdateDeviceConfig`, `RemoveDevice` and
  `Tick` are whole calls; `TickUnlock` and `TickNoOp` are the two ways `tick()` returns.
  `IsSlotFor` is the slot `find_or_create` returns. The ring with its index and count is a
  sequence of at most `MaxRecentObs` stamps: `tick()` reads all of it without regard to order.
  `last_unlock_ms` is compared only with 0 and becomes `unlock_set`. `feed(seen = false)`
  changes nothing and is left out.
* **`StateMachineObserved`.** `owed` is kept for a device that a tick passed over although its
  observations last until each slot before its own has had a tick (`EntitledAt`); who has fewer has no
  claim. `early` is who had the Unlock at time 0: the class keeps no stamp of it, so that it is
  repeated (`Repeats`), and `Presence` says so as well.
* **`SmTask`.** `pc` names the call the task makes next, so that every other task may run
  between two of them: the two reads of `bt_is_pairing()` (virtual clock, suppression) are
  separate steps, and so are the injection of a configuration and the feed. Time advances only
  while the task is blocked on an empty queue; the rest takes microseconds. `Init` is the state
  after the start sequence, with any set of stored configurations.
* **`DoorControl`.** `PulseBegin` and `PulseEnd` enclose the 500 ms of `vTaskDelay`.
* **`BtRadio`.** `presence_task` is split at every access to an atomic and at every request,
  since Bluedroid has the higher priority on the same core; a callback runs to its end.
  `requests` and `events` are FIFO queues to and from Bluedroid. `Outcomes` says what each
  request does to `radio` and which event reports it, as the code relies on it; requests are
  taken in order, a connection silently ends the advertising, a change of the Classic scan
  mode may cancel a page without a report (the code's own comment at `manager.cpp:539`).
  When a probe is due (`kClassicProbeRetryDelay`) is left open. Commands are taken whatever Bluedroid
  owes; only the number of clicks and connections is bounded for TLC (`inputs`). `misread` is a history
  variable: the latest closing found `s_ble_scanning` set although the stop of that scan was under way.
* **`BondCache`.** A refresh is two steps in `presence_task` (copy the list, write the table) and
  one in a callback, where nothing of `presence_task` can come in between. `sighting` is what
  `update_ble_presence` holds between its lookup and its write-back. A phone stands for its
  identity address and key; an address belongs to one phone (`OwnerOf`), since resolving is taken
  to be right. A phone is bonded over BLE or over Classic, not both; Bluedroid keeps a list of each,
  `ble_bonds` and `classic_bonds`, which the two refreshes read by a call of their own. Probes of
  Classic peers use the table only to pick one and are left to `BtRadio` and `DeviceRemoval`.
  A callback may have to wait for the AES unit while it resolves an address that is not known yet, and
  presence_task then runs (`HasTheCore`); a bond may be removed at once or later (`removing`, of which
  `MaxRemoving` bounds how many for TLC); a pairing may complete after its window was closed
  (`late`); a list in `Unreadable` may fail to be read, for want of memory or because Bluedroid
  returns an error. Two history variables record what comes of it: `behind` has the lists that changed
  after they were last read for a refresh or could not be read, `straddled` the address that had its
  match and was not yet written back when the table was last rewritten.
* **`DeviceConfigs`.** httpd is one thread, so there is one `request`. `Restart` is possible in
  every state. NVS writes are atomic and may fail, which the history variable `faulty` records;
  `promised` holds what a restart may give back. An invalid request is
  answered with 400 and changes nothing, so only valid ones appear. The merge of a partial
  request with the current value yields some valid configuration: `Request` allows any.

* **`DeviceRemoval`.** `deleting` is where `devices_delete_handler` is: the command for the bond is
  posted with the request, then `DeviceConfigs` deletes the entry in its two halves, then
  `SlotRemoval` tells `sm_task`. Of a slot only its configuration is kept, of the bonds only who has
  one; a bond that `RemoveBond` takes is gone at once, and the caches follow (`BondCache` has what may
  come in between). Commands other than removals are left out, since presence_task takes one command
  at a time. There are as many slots as devices. `Expire` stands for 24 hours, which no queue or probe
  outlasts. While the virtual clock is at 0 (`young`, until `ClockStarts`) a sighting may leave a device
  detected and last seen at 0: `tick()` never times it out, so `cleanup_stale` never frees its
  slot, until it is sighted again or removed (`stuck`).
* **`Wifi`.** `wifi_pc` is the next call of main in `wifi_start`; between two calls the event loop
  may run `EventHandler`. `event_group` tells a group that is deleted from a handle that is
  cleared, since `vEventGroupDelete` and the assignment are two steps.
* **`Boot`.** `Program` lists what `app_main` creates and starts, in order; `main_pc` is its place in
  the list. `Uses` says which kernel objects each task, handler or callback uses, and the sets that make
  up `Guarded` who uses them through a function that looks at the object first: the senders do,
  `sm_task`, `control_task` and `presence_task` do not. A reset keeps the NVS and the
  flash only. `streak` and `trouble` are history variables: the panics in a row, and whether the NVS
  or main failed so that the counter cannot know of all of them. A panic is of a part that safe mode
  leaves out or on a null handle (`AppPanic`), or of one of the others (`BasePanic`).
* **`Firmware`.** `httpd_pc` is the next call of the upload, which any step may end. `promised` is a
  history variable: the slot that was answered with OK.
* **`AuditLimiter`.** A stamp is modelled by its age, counted no further than the limits it is
  compared with; that `esp_timer_get_time() / 1000` wraps in 32 bits is left out. `failures`,
  `ip_alert` and `global_alert` are history variables.
* **`Notifier`.** `url_heap` is the set of live blocks that hold a URL, and three variables are the
  pointers into it; message bodies are only counted. The call of `save_url_to_nvs`, the swap and
  the release of the old block are three steps; `notifier_task` runs between them.
* **`Alerts`.** All handlers are in httpd: `to_send` is what `audit_401` has decided and not sent yet.

Operators named `X_Something` with a comment "Mutant" are mistaken versions of the operator
that follows. No specification uses them; they serve to show that each property fails when
the code is wrong in that way.

## 3. The runs

One unit of time stands for a second or more; only the order of the thresholds matters
(grace >= tick interval, timeout > window, and so on).

| Run | Result | Shows | Bounds |
|---|---|---|---|
| `state_machine` | holds | table consistent, refinement of `Presence` | 2 devices, 2 slots, 2 configurations, 3 signal strengths, ring of 2, time 0..4 |
| `state_machine_turns` | holds | devices that are passed over are served in turn | 3 devices for 3 slots, window of two ticks, timeout of five, time 0..6 |
| `sm_task` | holds | class used as documented, grace period kept, virtual clock against real time | 1 device, queues of 1, time to 5, 2 openings of the window |
| `sm_task_fair` | holds | ticks for ever, switches obeyed in the end, accepted commands pulsed, relay released | wrapping clock of 3, queues of 1, two messages to a drain |
| `sm_task_silent` | violated | device seen at virtual time 0 never leaves | 1 device, queues of 2 and 1, time to 5 |
| `bt_radio` | holds | window opens and closes, scan resumes, flags true in the end | up to 3 clicks and connections, any number of requests and events outstanding |
| `bond_cache` | holds | sightings credited rightly, caches current, bonded phones detected | 2 BLE phones (one with two addresses), 1 Classic, 1 late removal at a time, ring of 1, queue of 1, complete |
| `bond_cache_late` | violated | newly bonded phone missing from the cache | the same, every list readable |
| `device_removal` | holds | restart gives back what was stored, deleted configurations unused, removed devices forgotten | a phone and another device for 1 entry, 1 value, queues of 1 and 2, NVS may fail, complete |
| `boot` | holds | nothing used before it is there, safe mode, links restored, firmware to start | threshold 2, counter wraps at 4, 1 retry, complete |
| `alerts` | holds | bursts of 2 * threshold - 1 reported, heap owned, URL as answered | 2 addresses, 2 URLs, thresholds of 2, queue of 1, complete |
| `alerts_promised` | violated | a burst of the threshold itself may go unreported | the same, thresholds of 3 |

Each run has the module and the configuration of `PROJECT.json` "runs".

Why the bounds are enough. Slots interact only through "first free" and "first that wants an
Unlock", for which two or three slots show every order. A ring of two tells the newest stamp
from one that is about to fall out. Queues of one or two show empty, partly full and full. Time
runs past one full cycle of arrival, timeout and second arrival. The theorems remove these
bounds for every safety property (section 5). In `BtRadio` the command queue has one place, since
`presence_task` takes one command per iteration and the toggle only depends on
`pairing_mode`. `MaxInputs` is enough for a window that is opened, closed and opened again with all
requests of the first still under way, or for a phone that connects in between. In
`BondCache` two phones are enough for a removal to shift the table, and an address in a ring of
one stands for the one that is about to be forgotten. Only the Classic list may be unreadable in
the run, since with the BLE list it has nearly twice as many states; the theorems hold for either. The
configuration store is finite and checked completely: one entry for two
devices shows a full cache as well as a free one. In `Boot` a counter that wraps at 4 shows what the
256th panic does, and one retry tells the last from the others. In `Alerts` thresholds of two have a
window's first failure, its last and one across its end; the windows keep the order of the real ones
(cooldown and global window longer than the window of one address). Block 4 of `Notifier` is never
needed: at most three URLs are alive.

Deadlock is checked in every run.

Each violated run contradicts a comment, a header or a plan in the repository, quoted in `PROJECT.json`
"findings":

* `sm_task_silent`: the virtual clock starts at 0, and `last_seen_ms == 0` means "never seen".
* `bond_cache_late`: closing the window does not end a pairing under way, and its completion is
  taken for a reconnection, for which the cache is not refreshed.
* `alerts_promised`: three failures of one address within 10 s may go unreported, where the plan of the
  audit log promises an alert. Failures at 0, 69, 71 and 71.5 s are an example: the third is later than
  window and cooldown after the first, so the count starts anew with it and forgets the second.

Three properties exempt what the code gets wrong, and nothing else, so that they say what holds beside
it. `SightingsAreTheirs` exempts the one address that straddled the latest refresh: the write-back uses
an index into a table that was rewritten meanwhile. `CacheIsCurrent` exempts a list that changed after
it was last read for a refresh: a late removal, a late pairing, or a pairing whose newer copy
presence_task overwrites with its older one. `ScanResumes` exempts a window that is closed before the
stop of the scan, which its opening asked for, was reported: `request_ble_scan_mode` then takes the
stale `s_ble_scanning` for a scan that goes on, and the radio stays silent until the next closing.
Without these exemptions TLC finds each property violated in the same runs.

## 4. Fairness

* `SmTask`: `WF(SmTaskStep)`, `WF(ControlStep)`, `WF(TimePasses)`. FreeRTOS runs a ready task of
  sufficient priority, `vTaskDelay` returns, and the clock goes on. No sender, click or pairing
  is fair.
* `DeviceRemoval`: `WF` of the end of a probe, of `sm_task`, of the first movement of its clock (the
  pairing window does not stay open for ever) and of the 24 hours. Nothing for requests, sightings,
  pairings and removals: `ForgottenInTheEnd` does not need them to go on.
* `Boot`: `WF` of main, of a handler that has begun, of the restart that was scheduled, of the event
  loop, and of the driver (an attempt succeeds or fails). Nothing for requests, panics, resets and
  the network. That a handler goes on supposes that a client does not stall for ever in the middle
  of a body (see "hazards"). `CrashLoopIsBroken` names what may keep the web server from staying up.
* `BtRadio`: `WF` of `presence_task`, of carrying out requests, of callbacks and of the end of
  a page (Bluedroid has a page timeout). No fairness for connections and disconnections.

* `BondCache`: `SF(PresenceTask)`, since it has the lower priority and runs whenever Bluedroid is
  idle again, which it always is between two advertisements; `WF` of the rest of a callback. A phone at
  home advertises under one or another of its addresses (`SF` of `ScanResult` for each phone).
  `BondedAreDetected` is about phones that use more addresses than the negative cache holds.

`sm_task_fair` lets the clock wrap, so that a liveness property is never satisfied merely
because time ran out.

## 5. What is proved

Every theorem is of the form "the specification implies this": an inductive invariant holds at the
start, each step keeps it, and it implies the property. TLC has checked each of these invariants on
the instance of its run.

`StateMachineProofs`, for every number of devices and slots, every ring length, all
configurations and every horizon below the wrap of the clock:

* `TypeCorrect`: `Spec => []TypeOK`, the length of the ring included.
* `SlotsAlwaysUnique`: `ObservedSpec => []SlotsAreUnique`, with no assumption on the configurations.
* `InvariantHolds`: `ObservedSpec => []IInv`, and from it `FlagsAlwaysAgree` and `StampsAlwaysSightings`.
* `SilentNeverUnlock`: `ObservedSpec => UnlockNeedsSighting`.
* `StateMachineImplementsPresence`: `ObservedSpec => ImplementsPresence`.

None of these has a condition on the configurations or on the start of the clock: they hold for the
start at 0, which is what `sm_task` does, and for windows that are as long as timeouts, which
`validate_device_config` accepts. The clock does not wrap (`Horizon < TimeMod`, an assumption of
`StateMachine`): 49.7 days of virtual time.

The argument. `FlagsAgree` alone is not inductive: what a tick makes of a slot depends on its
observations. `IInv` adds `StampsAreSightings`, by which no stamp in a ring is later than
`last_seen_ms` or than the latest strong sighting. So whoever enters has a strong sighting within its
window (`EntryHasEvidence`), and an Unlock always is for a device that enters, or repeats one of
time 0 (`UnlockIsArrival`). A device that times out has been silent for its timeout
(`TimedOutMayLeave`), so that it may leave in `Presence`, and come back in the same decision where its
window is that long. This gives the action property, and each step of the refinement. What is special
at time 0 is in `Presence` itself: an Unlock that is repeated, and a device that need never leave.

* `TurnsAreServed`: `ObservedSpec => []PassedOverAreServed`, if `TimeoutsOutlastWindows`: every timeout
  is longer than two windows, as the default configuration has it (40 s and 10 s).

The hazard is that the observations of a device expire while others are served, or that devices in
the slots before its own leave and arrive again and are served twice. What is promised is promised to a
device whose observations last for a tick of each slot before its own, however many it needs and
however long its window is; removals, new configurations and departures may come at any time.
`TurnsInv` bounds the wait by the slots before its own that have not had their Unlock yet (`Settled`
has the others). A tick that passes a device over settles one more (`TickSettlesOne`), and no
settled slot wants another Unlock while the wait lasts: its device was sighted no longer ago than a
window before the wait began, the wait is no longer than a window, and a timeout is longer than both
(`SettledWantNothing`). A device that has just the observations it needs, the oldest about to leave the
window, is promised nothing, and section 7 says what becomes of it.

`SmTaskProofs`, for every set of devices and configurations, tick interval, grace period, drain and
depth of the queues:

* `SmTaskTypeCorrect`: `Spec => []TypeOK`, the wrap of the clock included. It has the depth of both
  queues, and that no more than `MaxDrain` messages are handled between two ticks.
* `NoUnlockInGrace`: `Spec => []NoAutoUnlockInGrace`. An Unlock is between the suppression and the
  relay for several steps, in which other tasks run; `GraceInv` says of each that the grace period is
  over, and time never brings it back.
* `VirtualClockIsAwakeTime`: `ClockSpec => []VirtualClockSkipsPairing`. The pairing flag is sampled
  once a tick, so an opening costs or gains at most one tick interval; `ClockInv` bounds the
  difference separately with the window open and closed. It rests on `TimeInv`: no more than a tick
  interval lies between two ticks, since the task waits for that long at most.
* `TaskCallsTheClass`: `Spec => DrivesStateMachine`, so that what `StateMachineProofs` says of the
  class applies to the class as the task calls it, with a clock that starts at 0.

The last three assume `BeforeTheWrap` (`Horizon < TimeMod`): the grace period is measured from a
32-bit uptime, and after 49.7 days it starts again.

`BtRadioProofs`, for every depth of the command queue and any number of requests and events:

* `RadioTypeCorrect`: `Spec => []TypeOK`.
* `FlagsAreTrue`: `Spec => []FlagsTellTheTruth`: with nothing outstanding the flags agree with the
  radio. While something is outstanding they do not, so `RadioInv` is about what a flag will be when
  all reports are in, and what the radio will be when all requests are carried out (`Final`). For the
  scan that is an equality; for the advertising, which a connection ends without a report, it is
  weaker, and with the window closed it needs that a `StopAdv` follows every `StartAdv`.

`BondCacheProofs`, for every number of phones, addresses, table entries and places in the ring:

* `BondCacheTypeCorrect`: `Spec => []TypeOK`, whatever Bluedroid does. It has the depth of the queue
  and of the ring, and that the copy in hand is of the list that is written next.
* `SightingsStayTheirs`: `Spec => []SightingsAreTheirs`. The invariant (`SightingInv`) adds that the
  index in hand is that of an entry with the identity in hand, which the write-back relies on, unless
  the table was rewritten under the sighting: then its address is the straddling one.
* `CachesStayCurrent`: `Spec => []CacheIsCurrent`. `RefreshInv` says what holds between the steps of a
  refresh while the window is closed: the list in hand is Bluedroid's, and the tables already written
  agree with it, unless their list is behind.

Neither theorem assumes anything of Bluedroid but what the actions say: removals and pairings may be
late, lists unreadable, callbacks interrupted.

`DeviceRemovalProofs`, for every finite set of devices, every set of phones and configurations, every
number of entries and depth of the queues:

* `RemovalTypeCorrect`: `RemovalSpec => []RemovalTypeOK`.
* `SettingsAreKept`: `RemovalSpec => []PromisesAreKept`. `ConfigInv` adds that no device has two
  entries, what the cache and the NVS hold at each step of a request, and that the NVS holds no more
  valid configurations than the cache has entries: otherwise a restart could not load them all. This
  last part is a matter of counting, and rests on a map from configurations to entries.
* `DeletionsTakeEffect`: `RemovalSpec => []DeletedConfigIsUnused`. A configuration disappears only
  within a deletion, from which on the removal of the slot is owed, queued or lost.

`BootProofs`, for every threshold of panics, width of their counter and number of retries:

* `BootTypeCorrect`: `Spec => []TypeOK`.
* `NothingUsesNull`: `Spec => []HandlersAreSafe`. The checks are credited to the callers that make them;
  a task that makes none comes after its objects in the order of the start (`UserComesLater`).
  `SafeModeStops` says how far main gets in safe mode.
* `SafeModeIsRight`: `Spec => []SafeModeIsEarned`. `CounterFollows` ties the counter in the NVS, which
  is one behind until main has counted, to the panics in a row.
* `AlwaysBootable` and `AcceptedRuns`: `Spec => []SomethingBoots`, `Spec => AcceptedFirmwareRuns`. An
  upload writes only the slot that is not running, and promises only what it has verified.

`AlertsProofs`, for every set of addresses and URLs, every threshold, window, cooldown and length of
the queue, with memory and NVS that may fail:

* `BlocksHaveOneOwner` and `AnsweredUrlIsKept`: `Spec => []HeapIsOwned`, `Spec => []UrlIsAsAnswered`.
  `NotifierInv` says which of the three pointers may be set at which call, that they are distinct,
  and what RAM and NVS hold at each call of an update.
* `IpAlertsAreComplete` and `GlobalAlertsAreComplete`: `Spec => []RepeatedFailuresAreReported`,
  `Spec => []RotationIsReported`. The limiter keeps one count and the time of the window's first
  failure; the properties are about any failures that came close together, which may lie across the
  end of a window. It takes 2 * threshold - 1 of them to have the threshold on one side of it: five of
  one address within 10 s, nineteen of all within a minute. For the thresholds themselves, three and
  ten, the statements are false (`alerts_promised`, section 7). `Accounted` ties the two, once for an
  address and once for all of them: a count below the threshold is that of the failures since the
  window began, and those before it had their alert. History keeps as many failures as a property can
  ask for (`KeptFailures`), and ages no further than it can tell apart (`FailureForgotten`).
* `TypeCorrect`: `Spec => []TypeOK`.

What the constants are assumed to be is an `ASSUME` of the module that declares them; TLC evaluates
it in the runs. All are what the code's own constants are: sizes and thresholds are positive, a
configuration has passed `validate_device_config`, there are finitely many addresses of 48 bits.

Only model-checked: all liveness, which needs `ENABLED`. It is `TicksForever`, `SwitchesAreObeyed`,
`CommandsArePulsed`, `RelayIsReleased`, `WindowOpens`, `WindowCloses`, `ScanResumes`,
`BondedAreDetected`, `ForgottenInTheEnd`, `CrashLoopIsBroken` and `LinkComesBack`.

## 6. Plan

Done: every module of section 2, a mutant for each property, and theorems for every safety property
that the runs check.

Next:

1. `LogStream`: client slots and the log hook.
2. `DeviceConfigInput`: `validate_device_config`, UTF-8 of the alias and the 8-bit threshold as
   operators, checked against a reference definition.
3. The storage of the auto-unlock switch and of the accounts, both two-step updates of RAM and NVS.

## 7. What is not modelled

* A web server that does not start: `start_webserver` returns when `httpd_start` fails
  (`server.cpp:1184`) and main goes on without one; in `Boot` it always starts.
* A refused `esp_wifi_connect`: its result is ignored (`wifi.cpp:81`, `:88`), and a refusal would be
  followed by no event; in `Wifi` every call leads to an attempt.
* Known hazards that no run asks yet: the grace period that returns when the uptime wraps; devices
  that arrive at the end of it; a second probe, or a probe flag that sticks; a client that stalls in
  the middle of a request. `PROJECT.json` "hazards" has a note for each.
* Bluedroid, FreeRTOS, the NVS, the flash, the Wi-Fi driver, the heap and phones are external; the
  modules state what the code relies on.
* Log streaming over WebSockets and the accounts (`auth.cpp`): see "hazards" for what can go wrong.
* Configuration validation, formatting, logging, HTTP parsing, JSON and the frontend. The monitor
  task has no state that another part reads.
* The storage of the auto-unlock switch: `SmTask` has its value in RAM.

Where documents and code differ, other than in the findings:

* `statemachine.h:86` says that an Unlock is for a first detection or a detection after a departure. With
  `enter_window_ms >= presence_timeout_ms`, which validation accepts, `tick()` times a device out and
  takes it in again in one call on the observations it timed out on, so that the door opens for a device
  nobody has sighted since. `Presence` allows to leave and arrive in one decision for this reason.
* `statemachine.h:89` says that devices which meet the condition at once are handled in turn by the
  next ticks. `tick()` counts the observations of a device again when its turn has come: with the default
  configuration (three within 10 s) one that is passed over with three observations, the oldest 9 s
  old, has two at the next tick, and is served only once it has been observed again.
* `src/docs/plans/2026-04-23-feat-audit-log-sousveillance-plan.md:91` and `server.cpp:156` promise an
  alert for ten failures within a minute, and `:249` of the plan a rolling window; the window begins
  with its first failure and does not roll, and up to eighteen failures on both sides of its end go
  unreported. For one address see the run `alerts_promised` (`:90`, `:384` and `:415` of the plan).
* `src/README.md:48` and `main.cpp:176` promise uploads in safe mode; they are there only if the chip
  reached its network, since the routes of the access point are the setup page and its request.
* `main.cpp:164` says that the door cannot be opened in safe mode; the request is answered with OK
  and dropped (`control_task.cpp:58`).
* `notifier.h:29` and `main.cpp:61` say that the notifier is not started in safe mode; it always is.
* `main.cpp:138` says that firmware which does not confirm itself is rolled back; the
  configuration of the bootloader in the repository does not enable that, so that `Bootloader`
  chooses by the image alone.
* A reset by a watchdog counts as an orderly one and sets the panic counter to 0 (`main.cpp:97`).
