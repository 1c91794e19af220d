----------------------------- MODULE StateMachine -----------------------------
(***************************************************************************)
(* The class StateMachine (components/statemachine): a table of device     *)
(* slots, fed with sightings of devices and evaluated by tick(), which     *)
(* says whether the door is to be unlocked.  The class is pure: it runs on *)
(* the time its caller passes in, and one task owns it (SmTask).           *)
(*                                                                         *)
(* feed(seen = FALSE) returns at once and has no action here.  The log     *)
(* fields (last_rssi) are left out.  last_unlock_ms is only ever compared  *)
(* with 0, so a slot keeps the answer of that comparison, unlock_set.      *)
(***************************************************************************)
EXTENDS Integers, Sequences, FiniteSets

CONSTANTS
  Mac,              \* identity addresses of the devices that can be fed
  NoMac,            \* the all-zero address of a free slot
  Config,           \* the DeviceConfig values the caller may set
  DefaultConfig,    \* DeviceConfig{}: what a fresh slot starts with
  Rssi,             \* signal strengths a sighting may carry; 0 is "none" (Classic)
  MaxDevices,       \* kMaxTrackedDevices (15)
  MaxRecentObs,     \* kMaxRecentObs (10)
  StaleThreshold,   \* kStaleThresholdMs (24 h)
  TimeMod,          \* 2^32: the caller's clock is a uint32_t
  StartTime,        \* the caller's clock before the first call
  MaxTickGap,       \* how far the clock moves between two ticks, at most
  Horizon           \* the clock value at which a behaviour stops; bounds TLC

ASSUME StateMachineAssumption ==
  /\ NoMac \notin Mac
  /\ MaxDevices \in Nat \ {0} /\ MaxRecentObs \in Nat \ {0}
  /\ StaleThreshold \in Nat /\ TimeMod \in Nat /\ Rssi \subseteq Int
  /\ StartTime \in Nat /\ MaxTickGap \in Nat
  /\ Horizon \in Nat /\ StartTime <= Horizon /\ Horizon < TimeMod

\* What validate_device_config lets through, in whatever unit of time.
ASSUME ConfigAssumption ==
  /\ DefaultConfig \in Config
  /\ Config \subseteq [rssi_threshold : Int, presence_timeout_ms : Nat \ {0},
                       enter_window_ms : Nat \ {0}, enter_min_count : Nat \ {0}]

VARIABLES
  slots,    \* devices_
  now,      \* the now_ms of the latest call
  action    \* what the latest tick() returned

vars == <<slots, now, action>>

Slot == 1 .. MaxDevices
Time == 0 .. TimeMod - 1

DeviceState == [mac : Mac \cup {NoMac}, valid : BOOLEAN, detected : BOOLEAN,
                went_undetected : BOOLEAN, last_seen_ms : Time,
                unlock_set : BOOLEAN, recent_obs : {obs \in Seq(Time) : Len(obs) <= MaxRecentObs},
                dev_config : Config]

EmptySlot == [mac |-> NoMac, valid |-> FALSE, detected |-> FALSE,
              went_undetected |-> FALSE, last_seen_ms |-> 0,
              unlock_set |-> FALSE, recent_obs |-> << >>,
              dev_config |-> DefaultConfig]

TypeOK ==
  /\ slots \in [Slot -> DeviceState]
  /\ now \in Time
  /\ action \in {"Unlock", "NoOp"}

-------------------------------------------------------------------------------
\* now_ms - t in uint32_t arithmetic.
Elapsed(t, since) == IF since <= t THEN t - since ELSE t - since + TimeMod

Holds(i, m) == slots[i].valid /\ slots[i].mac = m

\* Mutant: the first free slot is taken without looking past it.
IsSlotFor_FirstFree(i, m) ==
  /\ Holds(i, m) \/ ~slots[i].valid
  /\ \A j \in 1 .. (i - 1) : slots[j].valid /\ ~Holds(j, m)

\* Slot i is the one find_or_create(m) returns; there is none when m has no
\* slot and the table is full.
IsSlotFor(i, m) ==
  \/ Holds(i, m)
  \/ /\ \A j \in Slot : ~Holds(j, m)
     /\ ~slots[i].valid
     /\ \A j \in 1 .. (i - 1) : slots[j].valid

\* The contents of that slot when find_or_create returns.
FoundOrCreated(i, m) ==
  IF slots[i].valid THEN slots[i]
                    ELSE [EmptySlot EXCEPT !.mac = m, !.valid = TRUE]

\* Mutant: the ring keeps one stamp too many.
Push_OffByOne(obs, t) ==
  Append(IF Len(obs) <= MaxRecentObs THEN obs ELSE Tail(obs), t)

\* The ring of the last MaxRecentObs observation stamps, oldest first.
Push(obs, t) ==
  Append(IF Len(obs) < MaxRecentObs THEN obs ELSE Tail(obs), t)

TooWeak(d, rssi) == rssi # 0 /\ rssi < d.dev_config.rssi_threshold

\* Mutant: weak sightings of an undetected device are recorded too.
Observed_Weak(d, rssi, t) ==
  IF d.detected THEN [d EXCEPT !.last_seen_ms = t]
  ELSE [d EXCEPT !.last_seen_ms = t, !.recent_obs = Push(@, t)]

\* A slot after a sighting: a detected device only stays fresh, whatever the
\* signal; an undetected one collects observations that are strong enough.
Observed(d, rssi, t) ==
  IF d.detected THEN [d EXCEPT !.last_seen_ms = t]
  ELSE IF TooWeak(d, rssi) THEN d
  ELSE [d EXCEPT !.last_seen_ms = t, !.recent_obs = Push(@, t)]

Feed(m, rssi) ==
  /\ \/ \E i \in Slot :
          /\ IsSlotFor(i, m)
          /\ slots' = [slots EXCEPT ![i] = Observed(FoundOrCreated(i, m), rssi, now)]
     \/ /\ \A i \in Slot : ~IsSlotFor(i, m)
        /\ UNCHANGED slots
  /\ UNCHANGED <<now, action>>

UpdateDeviceConfig(m, cfg) ==
  /\ \/ \E i \in Slot :
          /\ IsSlotFor(i, m)
          /\ slots' = [slots EXCEPT ![i] = [FoundOrCreated(i, m) EXCEPT !.dev_config = cfg]]
     \/ /\ \A i \in Slot : ~IsSlotFor(i, m)
        /\ UNCHANGED slots
  /\ UNCHANGED <<now, action>>

RemoveDevice(m) ==
  /\ slots' = [i \in Slot |-> IF Holds(i, m) THEN EmptySlot ELSE slots[i]]
  /\ UNCHANGED <<now, action>>

-------------------------------------------------------------------------------
\* The three decisions tick() takes on a slot, in its order.
TimedOut(d, t) ==
  /\ d.detected
  /\ d.last_seen_ms > 0
  /\ Elapsed(t, d.last_seen_ms) >= d.dev_config.presence_timeout_ms

InWindow(d, t) ==
  {i \in DOMAIN d.recent_obs : Elapsed(t, d.recent_obs[i]) <= d.dev_config.enter_window_ms}

\* Mutant: observations count however old they are.
Enters_AnyAge(d, t) ==
  /\ ~d.detected \/ TimedOut(d, t)
  /\ Len(d.recent_obs) >= d.dev_config.enter_min_count

Enters(d, t) ==
  /\ ~d.detected \/ TimedOut(d, t)
  /\ Cardinality(InWindow(d, t)) >= d.dev_config.enter_min_count

PresentAt(d, t) == Enters(d, t) \/ (d.detected /\ ~TimedOut(d, t))

Evaluated(d, t) ==
  IF d.valid THEN [d EXCEPT !.detected = PresentAt(d, t),
                            !.went_undetected = @ \/ TimedOut(d, t)]
             ELSE d

\* Mutant: only the first arrival of a device unlocks.
WantsUnlock_Once(d, t) ==
  LET e == Evaluated(d, t)
  IN  e.valid /\ e.detected /\ ~e.unlock_set

WantsUnlock(d, t) ==
  LET e == Evaluated(d, t)
  IN  e.valid /\ e.detected /\ (~e.unlock_set \/ e.went_undetected)

\* cleanup_stale, on one slot.
Cleaned(d, t) ==
  IF d.valid /\ ~d.detected /\ Elapsed(t, d.last_seen_ms) >= StaleThreshold
  THEN EmptySlot ELSE d

\* Mutant: the departure an Unlock answers is not cleared.
TickUnlock_KeepsFlag(t) ==
  /\ \E k \in Slot :
       /\ WantsUnlock(slots[k], t)
       /\ \A j \in 1 .. (k - 1) : ~WantsUnlock(slots[j], t)
       /\ slots' = [i \in Slot |->
            IF i < k THEN Evaluated(slots[i], t)
            ELSE IF i = k THEN [Evaluated(slots[k], t) EXCEPT !.unlock_set = (t # 0)]
            ELSE slots[i]]
  /\ now' = t
  /\ action' = "Unlock"

\* Mutant: one Unlock is taken to serve everybody who wants one.
TickUnlock_ServesAll(t) ==
  /\ \E k \in Slot : WantsUnlock(slots[k], t)
  /\ slots' = [i \in Slot |->
       IF WantsUnlock(slots[i], t)
       THEN [Evaluated(slots[i], t) EXCEPT !.unlock_set = (t # 0), !.went_undetected = FALSE]
       ELSE Evaluated(slots[i], t)]
  /\ now' = t
  /\ action' = "Unlock"

\* The loop returns at the first slot k that wants an Unlock: the slots after k
\* are not looked at, and cleanup_stale does not run.  A stamp of 0 means
\* "never unlocked", so an Unlock at time 0 leaves no trace.
TickUnlock(t) ==
  /\ \E k \in Slot :
       /\ WantsUnlock(slots[k], t)
       /\ \A j \in 1 .. (k - 1) : ~WantsUnlock(slots[j], t)
       /\ slots' = [i \in Slot |->
            IF i < k THEN Evaluated(slots[i], t)
            ELSE IF i = k THEN [Evaluated(slots[k], t) EXCEPT
                                  !.unlock_set = (t # 0), !.went_undetected = FALSE]
            ELSE slots[i]]
  /\ now' = t
  /\ action' = "Unlock"

TickNoOp(t) ==
  /\ \A k \in Slot : ~WantsUnlock(slots[k], t)
  /\ slots' = [i \in Slot |-> Cleaned(Evaluated(slots[i], t), t)]
  /\ now' = t
  /\ action' = "NoOp"

Tick(t) == TickUnlock(t) \/ TickNoOp(t)

-------------------------------------------------------------------------------
Init ==
  /\ slots = [i \in Slot |-> EmptySlot]
  /\ now = StartTime
  /\ action = "NoOp"

\* The instants the next tick may be called with.
NextTimes == {t \in now .. Horizon : t <= now + MaxTickGap}

Next ==
  \/ \E m \in Mac, rssi \in Rssi : Feed(m, rssi)
  \/ \E m \in Mac, cfg \in Config : UpdateDeviceConfig(m, cfg)
  \/ \E m \in Mac : RemoveDevice(m)
  \/ \E t \in NextTimes : Tick(t)

Spec == Init /\ [][Next]_vars
===============================================================================
