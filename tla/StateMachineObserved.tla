------------------------- MODULE StateMachineObserved -------------------------
(***************************************************************************)
(* StateMachine together with history variables: what was really sighted,  *)
(* whose Unlock came at time 0, and which devices a tick passed over.  The *)
(* slot table does not depend on them, so that what it says can be         *)
(* compared with what happened; no action of StateMachine is constrained   *)
(* by them.                                                                *)
(***************************************************************************)
EXTENDS StateMachine

CONSTANTS MaxWindow, MinTimeout, MaxTimeout   \* what all configurations keep to

ASSUME ObservedAssumption ==
  /\ MaxWindow \in Nat /\ MinTimeout \in Nat /\ MaxTimeout \in Nat
  /\ \A c \in Config : /\ c.enter_window_ms <= MaxWindow
                       /\ MinTimeout <= c.presence_timeout_ms
                       /\ c.presence_timeout_ms <= MaxTimeout

VARIABLES
  heard,    \* heard[m]: time of the last sighting fed for m, Never if none
  strong,   \* strong[m]: the same for sightings that pass m's rssi_threshold
  early,    \* devices whose latest Unlock was given at time 0
  owed      \* owed[m]: the first tick that passed m over, Never if none did

obsVars == <<heard, strong, early, owed>>
allVars == <<slots, now, action, heard, strong, early, owed>>

Never == -1

\* Does a sighting of m pass the threshold that m's slot would judge it by?
StrongEnough(m, rssi) ==
  \E i \in Slot : IsSlotFor(i, m) /\ ~TooWeak(FoundOrCreated(i, m), rssi)

ObservedFeed(m, rssi) ==
  /\ Feed(m, rssi)
  /\ heard' = [heard EXCEPT ![m] = now]
  /\ strong' = IF StrongEnough(m, rssi) THEN [strong EXCEPT ![m] = now] ELSE strong
  /\ UNCHANGED <<early, owed>>

\* A new configuration changes what the device is entitled to.
ObservedUpdate(m, cfg) ==
  /\ UpdateDeviceConfig(m, cfg)
  /\ owed' = IF slots' = slots THEN owed ELSE [owed EXCEPT ![m] = Never]
  /\ UNCHANGED <<heard, strong, early>>

\* A removal frees a slot, whose next device may go before those after it.
ObservedRemove(m) ==
  /\ RemoveDevice(m)
  /\ owed' = [x \in Mac |-> IF \E i, j \in Slot : Holds(i, m) /\ Holds(j, x) /\ i <= j
                            THEN Never ELSE owed[x]]
  /\ UNCHANGED <<heard, strong, early>>

\* The tick at time t unlocks the door for slot i: the first that wants it.
UnlocksFor(i, t) ==
  /\ WantsUnlock(slots[i], t)
  /\ \A j \in 1 .. (i - 1) : ~WantsUnlock(slots[j], t)

Served(t) == {slots[i].mac : i \in {j \in Slot : UnlocksFor(j, t)}}

\* An Unlock at time 0 left no stamp, and the next tick that looks will repeat it.
Repeats(d) == d.detected /\ ~d.unlock_set

\* Slot i wants an Unlock at t, and has observations to want it still when each of
\* the slots before it has been given a tick; none of those has one of time 0 to repeat.
EntitledAt(i, t) ==
  /\ WantsUnlock(slots[i], t)
  /\ t # 0 /\ \A j \in 1 .. (i - 1) : ~Repeats(slots[j])
  /\ Cardinality(InWindow(slots[i], t + MaxTickGap * (i - 1))) >= slots[i].dev_config.enter_min_count

Entitled(t) == {slots[i].mac : i \in {j \in Slot : EntitledAt(j, t)}}

ObservedTick(t) ==
  /\ Tick(t)
  /\ owed' = [m \in Mac |-> IF m \in Served(t) THEN Never
                            ELSE IF owed[m] = Never /\ m \in Entitled(t) THEN t
                            ELSE owed[m]]
  /\ early' = IF t = 0 THEN early \cup Served(t) ELSE early \ Served(t)
  /\ UNCHANGED <<heard, strong>>

ObservedInit ==
  /\ Init
  /\ heard = [m \in Mac |-> Never] /\ strong = [m \in Mac |-> Never]
  /\ early = {}
  /\ owed = [m \in Mac |-> Never]

ObservedNext ==
  \/ \E m \in Mac, rssi \in Rssi : ObservedFeed(m, rssi)
  \/ \E m \in Mac, cfg \in Config : ObservedUpdate(m, cfg)
  \/ \E m \in Mac : ObservedRemove(m)
  \/ \E t \in NextTimes : ObservedTick(t)

ObservedSpec == ObservedInit /\ [][ObservedNext]_allVars

-------------------------------------------------------------------------------
\* A device has one slot at most: find_or_create never doubles a device, so no
\* arrival is counted in one slot and timed out in another.
SlotsAreUnique ==
  \A i, j \in Slot : slots[i].valid /\ slots[j].valid /\ slots[i].mac = slots[j].mac => i = j

\* Between two calls the flags detected, went_undetected and last_unlock_ms never
\* disagree, although tick() returns in the middle of its loop: a detected device
\* has had its Unlock, with a stamp unless that was at time 0, and none is due; one
\* that had an Unlock and is no longer detected is marked as gone; and a free slot
\* keeps nothing of its last device.
FlagsOK(d) ==
  /\ d.detected => ~d.went_undetected /\ (d.unlock_set \/ d.mac \in early)
  /\ ~d.detected /\ d.unlock_set => d.went_undetected
  /\ ~d.valid => d = EmptySlot

FlagsAgree == \A i \in Slot : FlagsOK(slots[i])

\* The stamps of a slot are those of real sightings of its device: none is later
\* than last_seen_ms, which lies between the device's last strong sighting and
\* its last sighting of any strength.
StampsOK(d) ==
  /\ d.last_seen_ms <= now
  /\ d.valid => d.mac \in Mac
  /\ d.detected => d.recent_obs # << >>
  /\ d.recent_obs # << >> =>
       /\ StartTime <= d.last_seen_ms
       /\ strong[d.mac] <= d.last_seen_ms /\ d.last_seen_ms <= heard[d.mac]
  /\ \A p \in DOMAIN d.recent_obs : d.recent_obs[p] <= strong[d.mac]

StampsAreSightings == \A i \in Slot : StampsOK(slots[i])

HistoryOK ==
  /\ heard \in [Mac -> Time \cup {Never}]
  /\ strong \in [Mac -> Time \cup {Never}]
  /\ owed \in [Mac -> Time \cup {Never}]
  /\ early \subseteq Mac

\* The inductive invariant behind the proofs.
IInv ==
  /\ TypeOK /\ HistoryOK
  /\ StartTime <= now /\ now <= Horizon
  /\ SlotsAreUnique /\ FlagsAgree /\ StampsAreSightings

\* tick() unlocks only for a device that was sighted strongly within its
\* enter_window_ms, however stale the ring it kept from its last arrival; the only
\* exception is the repetition of an Unlock of time 0 (statemachine.cpp, tick).
UnlockNeedsSighting ==
  [][\A t \in NextTimes, i \in Slot :
       TickUnlock(t) /\ UnlocksFor(i, t) /\ ~Repeats(slots[i]) =>
         /\ strong[slots[i].mac] # Never
         /\ t - strong[slots[i].mac] <= slots[i].dev_config.enter_window_ms]_allVars

\* tick() returns at the first Unlock and leaves the other devices to the next
\* ticks (statemachine.h, tick).  A device that was passed over with observations
\* that last for a tick of each slot before its own gets its Unlock in that time,
\* and before a tick has nothing to do.
PassedOverAreServed ==
  /\ action = "NoOp" => \A m \in Mac : owed[m] = Never
  /\ \A i \in Slot : slots[i].valid /\ owed[slots[i].mac] # Never =>
       now - owed[slots[i].mac] <= MaxTickGap * (i - 2)

\* The promise in full: StateMachine implements Presence, with the detected
\* slots as the set of present devices.
PresentMacs == {slots[i].mac : i \in {j \in Slot : slots[j].valid /\ slots[j].detected}}
RepeatMacs == {slots[i].mac : i \in {j \in Slot : slots[j].valid /\ Repeats(slots[j])}}

Abstract == INSTANCE Presence WITH present <- PresentMacs, repeat <- RepeatMacs, verdict <- action
ImplementsPresence == Abstract!Spec
===============================================================================
