-------------------------------- MODULE SmTask --------------------------------
(***************************************************************************)
(* The SM task (main/bt/sm_task.cpp): it owns the StateMachine, drains the *)
(* queue of sightings and removals, ticks on its virtual clock, and passes *)
(* an Unlock on to the control task unless one of three suppressions       *)
(* applies.  Around it run the Bluetooth manager (sends sightings, opens   *)
(* and closes the pairing window), the web server (toggles, removals,      *)
(* manual unlocks) and the control task (DoorControl).                     *)
(*                                                                         *)
(* Time passes only while the task is blocked in xQueueReceive: what it    *)
(* does between two waits takes microseconds.  pc names the call the task  *)
(* is about to make, so every other task may run between any two of them.  *)
(***************************************************************************)
EXTENDS DoorControl, FiniteSets

CONSTANTS
  Mac, NoMac, Config, DefaultConfig, Rssi,
  MaxDevices, MaxRecentObs, StaleThreshold, TimeMod,   \* as in StateMachine
  QueueDepth,       \* kQueueDepth (16)
  MaxDrain,         \* messages handled before a tick, at most (16)
  TickInterval,     \* kTickIntervalMs (2 s)
  StartupGrace,     \* kStartupGraceMs (30 s)
  StartMs,          \* uptime when the task starts
  Horizon           \* uptime at which time stops; at TimeMod or beyond it never does

ASSUME SmTaskAssumption ==
  /\ QueueDepth \in Nat \ {0} /\ MaxDrain \in Nat \ {0}
  /\ TickInterval \in Nat \ {0} /\ StartupGrace \in Nat
  /\ TimeMod \in Nat \ {0} /\ StartMs \in 1 .. (TimeMod - 1) /\ Horizon \in Nat
  /\ NoMac \notin Mac /\ MaxDevices \in Nat \ {0} /\ MaxRecentObs \in Nat \ {0}
  /\ StaleThreshold \in Nat /\ Rssi \subseteq Int

\* What validate_device_config lets through, in whatever unit of time.
ASSUME ConfigAssumption ==
  /\ DefaultConfig \in Config
  /\ Config \subseteq [rssi_threshold : Int, presence_timeout_ms : Nat \ {0},
                       enter_window_ms : Nat \ {0}, enter_min_count : Nat \ {0}]

VARIABLES
  slots, action,     \* the StateMachine object and its latest verdict
  virtual_now_ms,    \* the clock the StateMachine is run on
  last_real_ms,      \* real time of the latest tick, 0 before the first
  real,              \* esp_timer_get_time() in ms, as a uint32_t
  waited,            \* how long the current xQueueReceive has been blocked
  queue,             \* s_queue
  msg,               \* the message being handled, NoMessage when it is no longer read
  drained,           \* the local of the same name, 0 out of the inner loop
  pc,                \* the call sm_task is about to make
  configs,           \* the cache behind device_config_get
  snapshots,         \* s_snapshots: what the web UI is shown of each slot
  pairing,           \* bt_is_pairing()
  auto_unlock        \* auto_unlock_is_enabled()

smVars   == <<slots, action, virtual_now_ms>>
loopVars == <<last_real_ms, msg, drained, pc, snapshots>>
envVars  == <<configs, pairing, auto_unlock>>
taskVars == <<slots, action, virtual_now_ms, last_real_ms, real, waited,
              queue, msg, drained, pc, configs, snapshots, pairing, auto_unlock>>
vars == <<taskVars, doorVars>>

\* The class as this task drives it, on a clock that starts at 0.
SM == INSTANCE StateMachine WITH
        now <- virtual_now_ms, StartTime <- 0, MaxTickGap <- TickInterval

Message ==
  [type : {"Feed"}, mac : Mac, rssi : Rssi] \cup [type : {"RemoveDevice"}, mac : Mac]

NoMessage == [type |-> "None"]

TypeOK ==
  /\ DoorTypeOK
  /\ slots \in [SM!Slot -> SM!DeviceState] /\ action \in {"Unlock", "NoOp"}
  /\ {virtual_now_ms, last_real_ms, real} \subseteq SM!Time
  /\ waited \in 0 .. TickInterval
  /\ queue \in Seq(Message) /\ Len(queue) <= QueueDepth
  /\ msg \in Message \cup {NoMessage} /\ drained \in 0 .. MaxDrain
  /\ pc \in {"receive", "apply", "feed", "drain", "tick", "suppress", "checkPairing", "send"}
  /\ configs \in [Mac -> Config]
  /\ snapshots \in SUBSET [mac : Mac, detected : BOOLEAN]
  /\ pairing \in BOOLEAN /\ auto_unlock \in BOOLEAN

Elapse(t, since) == (t - since) % TimeMod

-------------------------------------------------------------------------------
\* sm_task, call by call.

TakeMessage ==
  /\ queue # << >>
  /\ msg' = Head(queue) /\ queue' = Tail(queue)
  /\ pc' = "apply"
  /\ UNCHANGED <<smVars, last_real_ms, real, snapshots, envVars, doorVars>>

\* The blocking xQueueReceive that starts an iteration.
Receive == pc = "receive" /\ TakeMessage /\ waited' = 0 /\ UNCHANGED drained

ReceiveTimesOut ==
  /\ pc = "receive" /\ queue = << >> /\ waited = TickInterval
  /\ pc' = "tick" /\ waited' = 0
  /\ UNCHANGED <<smVars, last_real_ms, real, queue, msg, drained, snapshots, envVars, doorVars>>

\* The loop goes on while the queue has messages, up to MaxDrain of them.
Drain == pc = "drain" /\ drained < MaxDrain /\ TakeMessage /\ UNCHANGED <<waited, drained>>

DrainEnds ==
  /\ pc = "drain" /\ (drained = MaxDrain \/ queue = << >>)
  /\ pc' = "tick" /\ drained' = 0
  /\ UNCHANGED <<smVars, last_real_ms, real, waited, queue, msg, snapshots, envVars, doorVars>>

\* Mutant: the messages handled are not counted.
Handled_NotCounted == drained

\* ++drained, on which the inner loop ends after MaxDrain messages.
Handled == drained + 1

\* A sighting first injects the device's configuration, then is fed at the
\* virtual time; the time stamp in the message is not used.
ApplyConfig ==
  /\ pc = "apply" /\ msg.type = "Feed"
  /\ SM!UpdateDeviceConfig(msg.mac, configs[msg.mac])
  /\ pc' = "feed"
  /\ UNCHANGED <<last_real_ms, real, waited, queue, msg, drained, snapshots,
                 envVars, doorVars>>

ApplyFeed ==
  /\ pc = "feed"
  /\ SM!Feed(msg.mac, msg.rssi)
  /\ drained' = Handled /\ msg' = NoMessage /\ pc' = "drain"
  /\ UNCHANGED <<last_real_ms, real, waited, queue, snapshots, envVars, doorVars>>

ApplyRemove ==
  /\ pc = "apply" /\ msg.type = "RemoveDevice"
  /\ SM!RemoveDevice(msg.mac)
  /\ drained' = Handled /\ msg' = NoMessage /\ pc' = "drain"
  /\ UNCHANGED <<last_real_ms, real, waited, queue, snapshots, envVars, doorVars>>

\* Mutant: the first tick jumps over the uptime.
VirtualNow_FromBoot ==
  IF ~pairing THEN (virtual_now_ms + Elapse(real, last_real_ms)) % TimeMod
              ELSE virtual_now_ms

\* Mutant: the clock goes on while pairing.
VirtualNow_Always ==
  IF last_real_ms # 0 THEN (virtual_now_ms + Elapse(real, last_real_ms)) % TimeMod
                      ELSE virtual_now_ms

\* The virtual clock stands still before the first tick and while pairing.
VirtualNow ==
  IF last_real_ms # 0 /\ ~pairing
  THEN (virtual_now_ms + Elapse(real, last_real_ms)) % TimeMod
  ELSE virtual_now_ms

Snapshot(table) ==
  {[mac |-> table[i].mac, detected |-> table[i].detected] :
     i \in {j \in DOMAIN table : table[j].valid}}

Tick ==
  /\ pc = "tick"
  /\ last_real_ms' = real
  /\ SM!Tick(VirtualNow)
  /\ snapshots' = Snapshot(slots')
  /\ pc' = IF action' = "Unlock" THEN "suppress" ELSE "receive"
  /\ UNCHANGED <<real, waited, queue, msg, drained, envVars, doorVars>>

\* Mutant: the grace period is measured from power-on.
InGrace_FromBoot == last_real_ms < StartupGrace

\* real_now_ms is last_real_ms from the assignment before the tick on.
InGrace == Elapse(last_real_ms, StartMs) < StartupGrace

\* Mutant: the auto-unlock switch is not consulted.
Suppress_NoSwitch ==
  /\ pc = "suppress"
  /\ pc' = IF InGrace THEN "receive" ELSE "checkPairing"
  /\ UNCHANGED <<smVars, last_real_ms, real, waited, queue, msg, drained,
                 snapshots, envVars, doorVars>>

\* An Unlock in the grace period or with auto-unlock off goes no further.
Suppress ==
  /\ pc = "suppress"
  /\ pc' = IF InGrace \/ ~auto_unlock THEN "receive" ELSE "checkPairing"
  /\ UNCHANGED <<smVars, last_real_ms, real, waited, queue, msg, drained,
                 snapshots, envVars, doorVars>>

CheckPairing ==
  /\ pc = "checkPairing"
  /\ pc' = IF pairing THEN "receive" ELSE "send"
  /\ UNCHANGED <<smVars, last_real_ms, real, waited, queue, msg, drained,
                 snapshots, envVars, doorVars>>

SendUnlock ==
  /\ pc = "send"
  /\ ControlQueueSend("AutoUnlock")
  /\ pc' = "receive"
  /\ UNCHANGED <<smVars, last_real_ms, real, waited, queue, msg, drained,
                 snapshots, envVars>>

SmTaskStep ==
  \/ Receive \/ ReceiveTimesOut \/ Drain \/ DrainEnds
  \/ ApplyConfig \/ ApplyFeed \/ ApplyRemove
  \/ Tick \/ Suppress \/ CheckPairing \/ SendUnlock

-------------------------------------------------------------------------------
\* Everything around the task.

\* One unit of time passes while the task is blocked on an empty queue.
TimePasses ==
  /\ pc = "receive" /\ queue = << >> /\ waited < TickInterval
  /\ real < Horizon
  /\ real' = (real + 1) % TimeMod /\ waited' = waited + 1
  /\ UNCHANGED <<smVars, loopVars, queue, envVars, doorVars>>

\* Mutant: the bound of the queue is not observed.
QueueSend_Unbounded(m) ==
  /\ queue' = Append(queue, m)
  /\ UNCHANGED <<smVars, loopVars, real, waited, envVars, doorVars>>

\* sm_feed_queue_send and sm_remove_device_queue_send drop what does not fit.
QueueSend(m) ==
  /\ queue' = IF Len(queue) < QueueDepth THEN Append(queue, m) ELSE queue
  /\ UNCHANGED <<smVars, loopVars, real, waited, envVars, doorVars>>

FeedQueueSend(m, rssi)    == QueueSend([type |-> "Feed", mac |-> m, rssi |-> rssi])
RemoveDeviceQueueSend(m)  == QueueSend([type |-> "RemoveDevice", mac |-> m])

\* The Bluetooth manager opens or closes the pairing window.
PairingToggle ==
  /\ pairing' = ~pairing
  /\ UNCHANGED <<smVars, loopVars, real, waited, queue, configs, auto_unlock, doorVars>>

\* POST /api/auto-unlock/toggle: auto_unlock_set(!auto_unlock_is_enabled()).
AutoUnlockToggle ==
  /\ auto_unlock' = ~auto_unlock
  /\ UNCHANGED <<smVars, loopVars, real, waited, queue, configs, pairing, doorVars>>

\* POST /api/devices/config: the cache is changed at once, a slot by the next feed.
SetConfig(m, cfg) ==
  /\ configs' = [configs EXCEPT ![m] = cfg]
  /\ UNCHANGED <<smVars, loopVars, real, waited, queue, pairing, auto_unlock, doorVars>>

\* POST /api/door/open
DoorOpen == ControlQueueSend("ManualUnlock") /\ UNCHANGED taskVars

ControlStep == ControlTask /\ UNCHANGED taskVars

Requests ==
  \/ \E m \in Mac, rssi \in Rssi : FeedQueueSend(m, rssi)
  \/ \E m \in Mac : RemoveDeviceQueueSend(m)
  \/ \E m \in Mac, cfg \in Config : SetConfig(m, cfg)
  \/ AutoUnlockToggle
  \/ DoorOpen

-------------------------------------------------------------------------------
\* The start sequence has pushed the stored configurations into the table: one
\* slot for each stored device, in the order of the cache.
Preloaded(macs) ==
  {table \in [SM!Slot -> {SM!EmptySlot} \cup
      {[SM!EmptySlot EXCEPT !.mac = m, !.valid = TRUE, !.dev_config = configs[m]] : m \in macs}] :
     /\ \A m \in macs : Cardinality({i \in SM!Slot : table[i].mac = m}) = 1
     /\ \A i, j \in SM!Slot : i < j /\ table[j].valid => table[i].valid}

Init ==
  /\ configs \in [Mac -> Config]
  /\ \E stored \in SUBSET Mac :
       /\ Cardinality(stored) <= MaxDevices
       /\ \A m \in Mac \ stored : configs[m] = DefaultConfig
       /\ slots \in Preloaded(stored)
  /\ action = "NoOp" /\ virtual_now_ms = 0
  /\ last_real_ms = 0 /\ real = StartMs /\ waited = 0
  /\ queue = << >> /\ msg = NoMessage
  /\ drained = 0 /\ pc = "receive"
  /\ snapshots = {}
  /\ pairing = FALSE /\ auto_unlock \in BOOLEAN
  /\ DoorInit

Next == SmTaskStep \/ TimePasses \/ ControlStep \/ PairingToggle \/ Requests

Spec == Init /\ [][Next]_vars

\* The scheduler runs a ready task and the clock goes on; nobody owes the
\* system a sighting, a click or a pairing.
Fairness == WF_vars(SmTaskStep) /\ WF_vars(TimePasses) /\ WF_vars(ControlStep)

FairSpec == Spec /\ Fairness
-------------------------------------------------------------------------------
\* The class is only ever used as its documentation asks: every change of the
\* table is one call, and tick() sees a clock that never runs backwards and never
\* skips more than one tick interval, however long the pairing window was open.
DrivesStateMachine == [][SM!Next]_smVars

\* Before the grace period is over in real time no automatic unlock is under way.
NoAutoUnlockInGrace == UnderWay("AutoUnlock") => real - StartMs >= StartupGrace

\* A queue that is never empty for long cannot keep the task from ticking.
TicksForever == []<>(pc = "tick")

\* Both switches work in the end: when auto-unlock stays off, or pairing stays
\* on, automatic pulses cease, and only those asked for on the web go on.
Ceases(c) == <>[]~UnderWay(c)
SwitchesAreObeyed ==
  /\ <>[]~auto_unlock => Ceases("AutoUnlock")
  /\ <>[]pairing => Ceases("AutoUnlock")

\* A present device that has been silent for its presence_timeout_ms does not
\* survive a tick that has nothing else to do (statemachine.h, tick, step 1).
PresenceTimesOut ==
  [][Tick /\ action' = "NoOp" =>
       \A i \in SM!Slot : slots'[i].detected =>
         Elapse(virtual_now_ms', slots[i].last_seen_ms) < slots[i].dev_config.presence_timeout_ms]_vars
===============================================================================
