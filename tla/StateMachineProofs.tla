-------------------------- MODULE StateMachineProofs --------------------------
(***************************************************************************)
(* Theorems about the state machine, for every table size, every set of    *)
(* devices and configurations, and every horizon below the clock's wrap.   *)
(***************************************************************************)
EXTENDS StateMachineObserved, FiniteSetTheorems, SequenceTheorems, TLAPS

\* Push keeps a ring a sequence of stamps: its last element is the new stamp and
\* every other element was in the ring before.
LEMMA PushIsRing ==
  ASSUME NEW S, NEW obs \in Seq(S), NEW t \in S
  PROVE  /\ Push(obs, t) \in Seq(S)
         /\ Push(obs, t) # << >>
         /\ Len(obs) <= MaxRecentObs => Len(Push(obs, t)) <= MaxRecentObs
         /\ \A p \in DOMAIN Push(obs, t) :
              Push(obs, t)[p] = t \/ \E q \in DOMAIN obs : Push(obs, t)[p] = obs[q]
<1>1. CASE Len(obs) < MaxRecentObs
  <2>1. Push(obs, t) = Append(obs, t)
    BY <1>1 DEF Push
  <2>2. Len(Append(obs, t)) <= MaxRecentObs
    BY <1>1, StateMachineAssumption
  <2>. QED
    BY <2>1, <2>2
<1>2. CASE ~(Len(obs) < MaxRecentObs)
  <2>1. Push(obs, t) = Append(Tail(obs), t)
    BY <1>2 DEF Push
  <2>2. obs # << >> /\ Len(obs) \in Nat \ {0}
    BY <1>2, StateMachineAssumption
  <2>3. /\ Tail(obs) \in Seq(S)
        /\ Len(Tail(obs)) = Len(obs) - 1
        /\ \A p \in 1 .. Len(Tail(obs)) : Tail(obs)[p] = obs[p + 1]
    BY <2>2
  <2>4. \A p \in DOMAIN Append(Tail(obs), t) :
          \/ Append(Tail(obs), t)[p] = t
          \/ p \in 1 .. Len(Tail(obs)) /\ Append(Tail(obs), t)[p] = Tail(obs)[p]
    BY <2>3
  <2>5. Len(Append(Tail(obs), t)) = Len(obs)
    BY <2>2, <2>3
  <2>. QED
    BY <2>1, <2>2, <2>3, <2>4, <2>5
<1>. QED
  BY <1>1, <1>2

\* A sighting leaves a slot a slot.
LEMMA ObservedType ==
  ASSUME NEW d \in DeviceState, NEW rssi, NEW t \in Time
  PROVE  Observed(d, rssi, t) \in DeviceState
<1>1. /\ Push(d.recent_obs, t) \in Seq(Time)
      /\ Len(Push(d.recent_obs, t)) <= MaxRecentObs
  BY PushIsRing DEF DeviceState
<1>. QED
  BY <1>1 DEF Observed, DeviceState

\* So do evaluation, Unlock and clean-up.
LEMMA EmptySlotType == EmptySlot \in DeviceState
BY StateMachineAssumption, ConfigAssumption DEF EmptySlot, DeviceState, Time

LEMMA FoundOrCreatedType ==
  ASSUME TypeOK, NEW i \in Slot, NEW m \in Mac
  PROVE  FoundOrCreated(i, m) \in DeviceState
BY EmptySlotType DEF FoundOrCreated, TypeOK, DeviceState, EmptySlot

LEMMA EvaluatedType ==
  ASSUME NEW d \in DeviceState, NEW t \in Time
  PROVE  /\ Evaluated(d, t) \in DeviceState
         /\ Cleaned(Evaluated(d, t), t) \in DeviceState
         /\ [Evaluated(d, t) EXCEPT !.unlock_set = (t # 0), !.went_undetected = FALSE]
              \in DeviceState
<1>1. Evaluated(d, t) \in DeviceState
  <2>1. PresentAt(d, t) \in BOOLEAN /\ TimedOut(d, t) \in BOOLEAN
    BY DEF PresentAt, TimedOut, Enters
  <2>2. (d.went_undetected \/ TimedOut(d, t)) \in BOOLEAN
    OBVIOUS
  <2>. QED
    BY <2>1, <2>2 DEF Evaluated, DeviceState
<1>2. Cleaned(Evaluated(d, t), t) \in DeviceState
  BY <1>1, EmptySlotType DEF Cleaned
<1>3. (t # 0) \in BOOLEAN
  OBVIOUS
<1>. QED
  BY <1>1, <1>2, <1>3 DEF DeviceState

\* Evaluation leaves a slot to its device.
LEMMA EvaluatedIdentity ==
  ASSUME NEW d \in DeviceState, NEW t
  PROVE  Evaluated(d, t).valid = d.valid /\ Evaluated(d, t).mac = d.mac
<1>1. CASE d.valid
  <2>1. Evaluated(d, t) = [d EXCEPT !.detected = PresentAt(d, t),
                                    !.went_undetected = d.went_undetected \/ TimedOut(d, t)]
    BY <1>1 DEF Evaluated
  <2>. QED
    BY <2>1 DEF DeviceState
<1>2. CASE ~d.valid
  BY <1>2 DEF Evaluated
<1>. QED
  BY <1>1, <1>2

-------------------------------------------------------------------------------
\* The first table is well-formed.
LEMMA InitType == Init => TypeOK
BY StateMachineAssumption, EmptySlotType DEF Init, TypeOK, Time

\* Each call keeps the types.
LEMMA NextKeepsType == TypeOK /\ [Next]_vars => TypeOK'
<1>. SUFFICES ASSUME TypeOK, [Next]_vars
              PROVE  TypeOK'
  OBVIOUS
<1>1. ASSUME NEW m \in Mac, NEW rssi \in Rssi, Feed(m, rssi)
      PROVE  TypeOK'
  <2>1. \A i \in Slot : Observed(FoundOrCreated(i, m), rssi, now) \in DeviceState
    BY FoundOrCreatedType, ObservedType DEF TypeOK
  <2>. QED
    BY <1>1, <2>1 DEF Feed, TypeOK
<1>2. ASSUME NEW m \in Mac, NEW cfg \in Config, UpdateDeviceConfig(m, cfg)
      PROVE  TypeOK'
  <2>1. \A i \in Slot : [FoundOrCreated(i, m) EXCEPT !.dev_config = cfg] \in DeviceState
    BY FoundOrCreatedType DEF DeviceState
  <2>. QED
    BY <1>2, <2>1 DEF UpdateDeviceConfig, TypeOK
<1>3. ASSUME NEW m \in Mac, RemoveDevice(m)
      PROVE  TypeOK'
  BY <1>3, EmptySlotType DEF RemoveDevice, TypeOK
<1>4. ASSUME NEW t \in NextTimes, Tick(t)
      PROVE  TypeOK'
  <2>1. t \in Time
    BY StateMachineAssumption DEF NextTimes, Time, TypeOK
  <2>2. slots' \in [Slot -> DeviceState]
    <3>1. CASE TickUnlock(t)
      <4>1. PICK k \in Slot : slots' = [i \in Slot |->
               IF i < k THEN Evaluated(slots[i], t)
               ELSE IF i = k THEN [Evaluated(slots[k], t) EXCEPT
                                     !.unlock_set = (t # 0), !.went_undetected = FALSE]
               ELSE slots[i]]
        BY <3>1 DEF TickUnlock
      <4>2. \A i \in Slot : /\ slots[i] \in DeviceState
                           /\ Evaluated(slots[i], t) \in DeviceState
        BY <2>1, EvaluatedType DEF TypeOK
      <4>3. [Evaluated(slots[k], t) EXCEPT
               !.unlock_set = (t # 0), !.went_undetected = FALSE] \in DeviceState
        BY <2>1, EvaluatedType DEF TypeOK
      <4>. QED
        BY <4>1, <4>2, <4>3
    <3>2. CASE TickNoOp(t)
      BY <3>2, <2>1, EvaluatedType DEF TickNoOp, TypeOK
    <3>. QED
      BY <1>4, <3>1, <3>2 DEF Tick
  <2>. QED
    BY <1>4, <2>1, <2>2 DEF Tick, TickUnlock, TickNoOp, TypeOK
<1>5. CASE UNCHANGED vars
  BY <1>5 DEF vars, TypeOK
<1>. QED
  BY <1>1, <1>2, <1>3, <1>4, <1>5 DEF Next

\* Type correctness: every slot is a well-formed DeviceState and the clock never
\* reaches its wrap, whatever the caller feeds, configures and removes.
THEOREM TypeCorrect == Spec => []TypeOK
BY InitType, NextKeepsType, PTL DEF Spec

-------------------------------------------------------------------------------
\* At most one slot is the slot for m, so a sighting is judged by one threshold.
LEMMA SlotForIsUnique ==
  ASSUME TypeOK, SlotsAreUnique, NEW m \in Mac,
         NEW i \in Slot, NEW j \in Slot, IsSlotFor(i, m), IsSlotFor(j, m)
  PROVE  i = j
<1>1. CASE Holds(i, m) \/ Holds(j, m)
  BY <1>1 DEF IsSlotFor, Holds, SlotsAreUnique
<1>2. CASE ~Holds(i, m) /\ ~Holds(j, m)
  <2>1. ~(i < j) /\ ~(j < i)
    BY <1>2 DEF IsSlotFor, Slot
  <2>. QED
    BY <2>1, StateMachineAssumption DEF Slot
<1>. QED
  BY <1>1, <1>2

\* An entry needs an observation no older than the entry window.
LEMMA EntryNeedsObservation ==
  ASSUME NEW d \in DeviceState, NEW t \in Time, Enters(d, t)
  PROVE  \E p \in DOMAIN d.recent_obs :
           Elapsed(t, d.recent_obs[p]) <= d.dev_config.enter_window_ms
<1>1. Cardinality(InWindow(d, t)) >= d.dev_config.enter_min_count
  BY DEF Enters
<1>2. d.dev_config.enter_min_count \in Nat \ {0}
  BY ConfigAssumption DEF DeviceState
<1>3. SUFFICES InWindow(d, t) # {}
  BY DEF InWindow
<1>4. Cardinality({}) = 0
  BY FS_EmptySet
<1>. QED
  BY <1>1, <1>2, <1>4

\* What a tick that does not unlock for a slot leaves of it: nobody becomes
\* detected without an Unlock, not even a device that was just timed out.
LEMMA EvaluationKeepsSlot ==
  ASSUME NEW d \in DeviceState, FlagsOK(d), NEW t \in Time, ~WantsUnlock(d, t)
  PROVE  LET e == Evaluated(d, t) IN
         /\ FlagsOK(e) /\ ~Repeats(e)
         /\ e.valid = d.valid /\ e.mac = d.mac /\ e.recent_obs = d.recent_obs
         /\ e.last_seen_ms = d.last_seen_ms /\ e.unlock_set = d.unlock_set
         /\ e.detected <=> d.detected /\ ~TimedOut(d, t)
<1>. DEFINE e == Evaluated(d, t)
<1>1. CASE ~d.valid
  <2>1. e = d /\ ~d.detected
    BY <1>1 DEF Evaluated, FlagsOK, EmptySlot
  <2>. QED
    BY <2>1 DEF Repeats
<1>2. CASE d.valid
  <2>1. e = [d EXCEPT !.detected = PresentAt(d, t),
                      !.went_undetected = d.went_undetected \/ TimedOut(d, t)]
    BY <1>2 DEF Evaluated
  <2>2. /\ e.valid = d.valid /\ e.mac = d.mac /\ e.recent_obs = d.recent_obs
        /\ e.last_seen_ms = d.last_seen_ms /\ e.unlock_set = d.unlock_set
        /\ e.detected = PresentAt(d, t)
        /\ e.went_undetected = (d.went_undetected \/ TimedOut(d, t))
    BY <2>1 DEF DeviceState
  <2>3. e.detected => e.unlock_set /\ ~e.went_undetected
    BY <1>2, <2>2 DEF WantsUnlock
  <2>4. e.detected <=> d.detected /\ ~TimedOut(d, t)
    BY <2>2, <2>3 DEF PresentAt, Enters, FlagsOK
  <2>5. ~e.detected /\ e.unlock_set => e.went_undetected
    BY <2>2, <2>4 DEF FlagsOK
  <2>. QED
    BY <1>2, <2>2, <2>3, <2>4, <2>5 DEF FlagsOK, Repeats
<1>. QED
  BY <1>1, <1>2

\* Whom a tick unlocks for: a device that enters, or one whose Unlock of time 0 is
\* still to be repeated.
LEMMA UnlockIsArrival ==
  ASSUME NEW d \in DeviceState, FlagsOK(d), StampsOK(d),
         NEW t \in Time, WantsUnlock(d, t)
  PROVE  /\ d.valid /\ Evaluated(d, t).detected
         /\ d.recent_obs # << >>
         /\ Enters(d, t) \/ (Repeats(d) /\ ~TimedOut(d, t))
<1>1. d.valid
  BY DEF WantsUnlock, Evaluated
<1>2. /\ Evaluated(d, t).detected = PresentAt(d, t)
      /\ Evaluated(d, t).unlock_set = d.unlock_set
      /\ Evaluated(d, t).went_undetected = (d.went_undetected \/ TimedOut(d, t))
  BY <1>1 DEF Evaluated, DeviceState
<1>3. PresentAt(d, t) /\ (~d.unlock_set \/ d.went_undetected \/ TimedOut(d, t))
  BY <1>2 DEF WantsUnlock
<1>4. Enters(d, t) \/ (Repeats(d) /\ ~TimedOut(d, t))
  BY <1>3 DEF PresentAt, FlagsOK, Repeats
<1>5. Enters(d, t) => d.recent_obs # << >>
  BY EntryNeedsObservation
<1>6. d.recent_obs # << >>
  BY <1>4, <1>5 DEF StampsOK, Repeats
<1>7. Evaluated(d, t).detected
  BY <1>2, <1>3
<1>. QED
  BY <1>1, <1>4, <1>6, <1>7

-------------------------------------------------------------------------------
\* The inductive invariant is kept by each call of the class.
LEMMA FeedKeepsIInv ==
  ASSUME IInv, NEW m \in Mac, NEW rssi \in Rssi, ObservedFeed(m, rssi),
         TypeOK'
  PROVE  IInv'
<1>. USE DEF IInv
<1>1. HistoryOK' /\ early' = early
  BY DEF ObservedFeed, HistoryOK, TypeOK
<1>2. CASE \A i \in Slot : ~IsSlotFor(i, m)
  <2>1. slots' = slots /\ strong' = strong /\ now' = now
    BY <1>2 DEF ObservedFeed, Feed, StrongEnough
  <2>2. \A i \in Slot : slots[i].valid => slots[i].mac # m
    BY <1>2 DEF IsSlotFor, Holds
  <2>3. \A i \in Slot : slots[i].recent_obs # << >> => heard'[slots[i].mac] = heard[slots[i].mac]
    BY <2>2 DEF ObservedFeed, FlagsAgree, FlagsOK, EmptySlot, HistoryOK
  <2>4. StampsAreSightings'
    BY <2>1, <2>3 DEF StampsAreSightings, StampsOK
  <2>. QED
    BY <1>1, <2>1, <2>4 DEF SlotsAreUnique, FlagsAgree, FlagsOK
<1>3. ASSUME NEW i \in Slot, IsSlotFor(i, m),
             slots' = [slots EXCEPT ![i] = Observed(FoundOrCreated(i, m), rssi, now)]
      PROVE  IInv'
  <2>. DEFINE d == FoundOrCreated(i, m)
  <2>. DEFINE o == Observed(d, rssi, now)
  <2>1. /\ d \in DeviceState /\ o \in DeviceState
        /\ now \in Time /\ now' = now
    BY FoundOrCreatedType, ObservedType DEF TypeOK, ObservedFeed, Feed
  <2>2. d.valid /\ d.mac = m
    BY <1>3 DEF FoundOrCreated, IsSlotFor, Holds, EmptySlot
  <2>3. FlagsOK(d) /\ StampsOK(d)
    <3>1. CASE slots[i].valid
      BY <3>1 DEF FoundOrCreated, FlagsAgree, StampsAreSightings
    <3>2. CASE ~slots[i].valid
      BY <3>2, <2>1 DEF FoundOrCreated, EmptySlot, FlagsOK, StampsOK, Time
    <3>. QED
      BY <3>1, <3>2
  <2>4. slots'[i] = o /\ \A j \in Slot : j # i => slots'[j] = slots[j]
    BY <1>3 DEF TypeOK
  <2>5. o.valid /\ o.mac = m /\ FlagsOK(o)
    BY <2>1, <2>2, <2>3 DEF Observed, DeviceState, FlagsOK
  <2>. HIDE DEF d
  <2>6. \A j \in Slot : j # i => ~Holds(j, m)
    BY <1>3 DEF IsSlotFor, Holds, SlotsAreUnique
  <2>7. SlotsAreUnique'
    BY <2>4, <2>5, <2>6 DEF SlotsAreUnique, Holds
  <2>8. FlagsAgree'
    BY <1>1, <2>4, <2>5 DEF FlagsAgree, FlagsOK
  <2>9. StampsAreSightings'
    <3>1. ASSUME NEW j \in Slot, j # i
          PROVE  StampsOK(slots[j])'
      <4>1. slots[j].recent_obs # << >> =>
              /\ heard'[slots[j].mac] = heard[slots[j].mac]
              /\ strong'[slots[j].mac] = strong[slots[j].mac]
        BY <3>1, <2>6 DEF Holds, ObservedFeed, FlagsAgree, FlagsOK, EmptySlot, HistoryOK
      <4>2. StampsOK(slots[j])
        BY DEF StampsAreSightings
      <4>. QED
        BY <2>1, <2>4, <3>1, <4>1, <4>2 DEF StampsOK
    <3>2. heard'[m] = now /\ strong'[m] \in {strong[m], now}
      BY DEF ObservedFeed, HistoryOK
    <3>3. /\ strong[m] \in Int
          /\ d.last_seen_ms \in Int /\ d.last_seen_ms <= now
          /\ d.recent_obs # << >> =>
               strong[m] <= d.last_seen_ms /\ StartTime <= d.last_seen_ms
      <4>1. strong[m] \in Int
        BY DEF HistoryOK, Time, Never
      <4>2. d.last_seen_ms \in Int
        BY <2>1 DEF DeviceState, Time
      <4>. QED
        BY <2>2, <2>3, <4>1, <4>2 DEF StampsOK
    <3>4. \A p \in DOMAIN d.recent_obs : d.recent_obs[p] \in Int /\ d.recent_obs[p] <= strong[m]
      <4>1. d.recent_obs \in Seq(Time)
        BY <2>1 DEF DeviceState
      <4>2. \A p \in DOMAIN d.recent_obs : d.recent_obs[p] \in Int
        <5>1. d.recent_obs \in [1 .. Len(d.recent_obs) -> Time]
          BY <4>1, LenProperties
        <5>. QED
          BY <5>1 DEF Time
      <4>. QED
        BY <2>2, <2>3, <4>2 DEF StampsOK
    <3>5. StampsOK(slots[i])'
      <4>1. CASE d.detected
        <5>1. o = [d EXCEPT !.last_seen_ms = now]
          BY <4>1 DEF Observed
        <5>2. /\ o.last_seen_ms = now /\ o.recent_obs = d.recent_obs
              /\ o.detected = d.detected /\ d.recent_obs # << >>
          BY <2>1, <2>3, <4>1, <5>1 DEF DeviceState, StampsOK
        <5>. QED
          BY <2>1, <2>4, <2>5, <3>2, <3>3, <3>4, <5>2, StateMachineAssumption DEF StampsOK, Time
      <4>2. CASE ~d.detected /\ TooWeak(d, rssi)
        <5>1. o = d
          BY <4>2 DEF Observed
        <5>2. ~StrongEnough(m, rssi)
          BY <1>3, <4>2, SlotForIsUnique DEF StrongEnough, d
        <5>3. strong'[m] = strong[m]
          BY <5>2 DEF ObservedFeed
        <5>. QED
          BY <2>1, <2>2, <2>3, <2>4, <3>2, <3>3, <3>4, <5>1, <5>3 DEF StampsOK
      <4>3. CASE ~d.detected /\ ~TooWeak(d, rssi)
        <5>1. o = [d EXCEPT !.last_seen_ms = now, !.recent_obs = Push(d.recent_obs, now)]
          BY <4>3 DEF Observed
        <5>2. /\ o.last_seen_ms = now /\ o.recent_obs = Push(d.recent_obs, now)
              /\ o.detected = FALSE
          BY <2>1, <4>3, <5>1 DEF DeviceState
        <5>3. StrongEnough(m, rssi)
          BY <1>3, <4>3 DEF StrongEnough, d
        <5>4. strong'[m] = now
          BY <5>3 DEF ObservedFeed, HistoryOK
        <5>5. \A p \in DOMAIN o.recent_obs : o.recent_obs[p] <= now
          <6>1. \A p \in DOMAIN o.recent_obs :
                  o.recent_obs[p] = now \/ \E q \in DOMAIN d.recent_obs : o.recent_obs[p] = d.recent_obs[q]
            BY <2>1, <5>2, PushIsRing DEF DeviceState
          <6>2. \A q \in DOMAIN d.recent_obs : d.recent_obs[q] <= now
            <7>. SUFFICES ASSUME NEW q \in DOMAIN d.recent_obs
                          PROVE  d.recent_obs[q] <= now
              OBVIOUS
            <7>1. d.recent_obs # << >>
              OBVIOUS
            <7>. QED
              BY <2>1, <3>3, <3>4, <7>1 DEF Time
          <6>. QED
            BY <2>1, <6>1, <6>2 DEF Time
        <5>. QED
          BY <2>1, <2>4, <2>5, <3>2, <5>2, <5>4, <5>5, StateMachineAssumption DEF StampsOK, Time
      <4>. QED
        BY <4>1, <4>2, <4>3
    <3>. QED
      BY <2>4, <3>1, <3>5 DEF StampsAreSightings, StampsOK
  <2>. QED
    BY <1>1, <2>1, <2>7, <2>8, <2>9
<1>. QED
  BY <1>2, <1>3 DEF ObservedFeed, Feed

LEMMA UpdateKeepsIInv ==
  ASSUME IInv, NEW m \in Mac, NEW cfg \in Config, ObservedUpdate(m, cfg), TypeOK'
  PROVE  IInv'
<1>. USE DEF IInv
<1>1. UNCHANGED <<now, heard, strong, early>> /\ HistoryOK'
  <2>1. UNCHANGED <<now, heard, strong, early>>
    BY DEF ObservedUpdate, UpdateDeviceConfig
  <2>2. owed' \in [Mac -> Time \cup {Never}]
    BY DEF ObservedUpdate, HistoryOK
  <2>. QED
    BY <2>1, <2>2 DEF HistoryOK
<1>2. CASE UNCHANGED slots
  BY <1>1, <1>2 DEF SlotsAreUnique, FlagsAgree, FlagsOK, StampsAreSightings, StampsOK
<1>3. ASSUME NEW i \in Slot, IsSlotFor(i, m),
             slots' = [slots EXCEPT ![i] = [FoundOrCreated(i, m) EXCEPT !.dev_config = cfg]]
      PROVE  IInv'
  <2>. DEFINE d == FoundOrCreated(i, m)
  <2>. DEFINE o == [d EXCEPT !.dev_config = cfg]
  <2>1. d \in DeviceState
    BY FoundOrCreatedType
  <2>2. d.valid /\ d.mac = m
    BY <1>3 DEF FoundOrCreated, IsSlotFor, Holds, EmptySlot
  <2>3. FlagsOK(d) /\ StampsOK(d)
    <3>1. CASE slots[i].valid
      BY <3>1 DEF FoundOrCreated, FlagsAgree, StampsAreSightings
    <3>2. CASE ~slots[i].valid
      BY <3>2 DEF FoundOrCreated, EmptySlot, FlagsOK, StampsOK, TypeOK, Time
    <3>. QED
      BY <3>1, <3>2
  <2>4. slots'[i] = o /\ \A j \in Slot : j # i => slots'[j] = slots[j]
    BY <1>3 DEF TypeOK
  <2>5. \A j \in Slot : j # i => ~Holds(j, m)
    BY <1>3 DEF IsSlotFor, Holds, SlotsAreUnique
  <2>. HIDE DEF d
  <2>6. /\ o.valid /\ o.mac = m /\ o.detected = d.detected /\ o.unlock_set = d.unlock_set
        /\ o.went_undetected = d.went_undetected /\ o.recent_obs = d.recent_obs
        /\ o.last_seen_ms = d.last_seen_ms
    BY <2>1, <2>2 DEF DeviceState
  <2>. HIDE DEF o
  <2>7. SlotsAreUnique'
    BY <2>4, <2>5, <2>6 DEF SlotsAreUnique, Holds
  <2>8. FlagsAgree'
    BY <1>1, <2>2, <2>3, <2>4, <2>6 DEF FlagsAgree, FlagsOK
  <2>9. StampsAreSightings'
    BY <1>1, <2>2, <2>3, <2>4, <2>6 DEF StampsAreSightings, StampsOK
  <2>. QED
    BY <1>1, <2>7, <2>8, <2>9
<1>. QED
  BY <1>2, <1>3 DEF ObservedUpdate, UpdateDeviceConfig

LEMMA RemoveKeepsIInv ==
  ASSUME IInv, NEW m \in Mac, ObservedRemove(m), TypeOK'
  PROVE  IInv'
<1>. USE DEF IInv
<1>1. UNCHANGED <<now, heard, strong, early>> /\ HistoryOK'
  <2>1. UNCHANGED <<now, heard, strong, early>>
    BY DEF ObservedRemove, RemoveDevice
  <2>2. owed' \in [Mac -> Time \cup {Never}]
    BY DEF ObservedRemove, HistoryOK
  <2>. QED
    BY <2>1, <2>2 DEF HistoryOK
<1>2. \A i \in Slot : slots'[i] = EmptySlot \/ slots'[i] = slots[i]
  BY DEF ObservedRemove, RemoveDevice
<1>3. FlagsOK(EmptySlot) /\ StampsOK(EmptySlot) /\ ~EmptySlot.valid
  BY DEF FlagsOK, StampsOK, EmptySlot, TypeOK, Time
<1>4. SlotsAreUnique'
  BY <1>2, <1>3 DEF SlotsAreUnique
<1>5. FlagsAgree'
  BY <1>1, <1>2, <1>3 DEF FlagsAgree, FlagsOK
<1>6. StampsAreSightings'
  BY <1>1, <1>2, <1>3 DEF StampsAreSightings, StampsOK
<1>. QED
  BY <1>1, <1>4, <1>5, <1>6

\* What a tick makes of each slot, whichever of its two ways out it takes.
LEMMA TickOnSlots ==
  ASSUME IInv, NEW t \in NextTimes, Tick(t)
  PROVE  /\ t \in Time /\ now \in Time /\ now <= t /\ t <= Horizon /\ now' = t
         /\ \A i \in Slot : slots[i] \in DeviceState /\ FlagsOK(slots[i]) /\ StampsOK(slots[i])
         /\ \A i \in Slot :
              \/ slots'[i] = slots[i] /\ ~UnlocksFor(i, t)
              \/ slots'[i] = EmptySlot /\ ~Evaluated(slots[i], t).detected /\ ~WantsUnlock(slots[i], t)
              \/ slots'[i] = Evaluated(slots[i], t) /\ ~WantsUnlock(slots[i], t)
              \/ /\ UnlocksFor(i, t) /\ WantsUnlock(slots[i], t)
                 /\ slots'[i] = [Evaluated(slots[i], t) EXCEPT
                                   !.unlock_set = (t # 0), !.went_undetected = FALSE]
<1>. USE DEF IInv
<1>1. t \in Time /\ now \in Time /\ now <= t /\ t <= Horizon /\ now' = t
  <2>1. t \in now .. Horizon /\ now \in Time
    BY DEF NextTimes, TypeOK
  <2>2. now' = t
    BY DEF Tick, TickUnlock, TickNoOp
  <2>. QED
    BY <2>1, <2>2, StateMachineAssumption DEF Time
<1>2. \A i \in Slot : slots[i] \in DeviceState /\ FlagsOK(slots[i]) /\ StampsOK(slots[i])
  BY DEF TypeOK, FlagsAgree, StampsAreSightings
<1>3. CASE TickUnlock(t)
  <2>1. PICK k \in Slot :
          /\ WantsUnlock(slots[k], t)
          /\ \A j \in 1 .. (k - 1) : ~WantsUnlock(slots[j], t)
          /\ slots' = [i \in Slot |->
               IF i < k THEN Evaluated(slots[i], t)
               ELSE IF i = k THEN [Evaluated(slots[k], t) EXCEPT
                                     !.unlock_set = (t # 0), !.went_undetected = FALSE]
               ELSE slots[i]]
    BY <1>3 DEF TickUnlock
  <2>2. UnlocksFor(k, t)
    BY <2>1 DEF UnlocksFor
  <2>3. ~(k < k) /\ \A i \in Slot : i < k => i \in 1 .. (k - 1)
    BY DEF Slot
  <2>4. \A i \in Slot : ~(i < k) /\ i # k => k \in 1 .. (i - 1)
    BY StateMachineAssumption DEF Slot
  <2>5. \A i \in Slot : ~(i < k) /\ i # k => ~UnlocksFor(i, t)
    BY <2>1, <2>4 DEF UnlocksFor
  <2>6. slots'[k] = [Evaluated(slots[k], t) EXCEPT
                       !.unlock_set = (t # 0), !.went_undetected = FALSE]
    BY <2>1, <2>3
  <2>7. \A i \in Slot : i < k => slots'[i] = Evaluated(slots[i], t) /\ ~WantsUnlock(slots[i], t)
    BY <2>1, <2>3
  <2>8. \A i \in Slot : ~(i < k) /\ i # k => slots'[i] = slots[i]
    BY <2>1
  <2>. QED
    BY <1>1, <1>2, <2>1, <2>2, <2>5, <2>6, <2>7, <2>8
<1>4. CASE TickNoOp(t)
  BY <1>1, <1>2, <1>4 DEF TickNoOp, Cleaned
<1>. QED
  BY <1>3, <1>4 DEF Tick

\* A device for which a tick does not unlock stays on the list of those whose Unlock
\* came at time 0, and one for which it unlocks gets on it or has a stamp.
LEMMA EarlyAfterTick ==
  ASSUME IInv, NEW t \in NextTimes, ObservedTick(t), NEW i \in Slot, slots[i].valid
  PROVE  /\ UnlocksFor(i, t) /\ t = 0 => slots[i].mac \in early'
         /\ ~UnlocksFor(i, t) /\ slots[i].mac \in early => slots[i].mac \in early'
<1>1. early' = IF t = 0 THEN early \cup Served(t) ELSE early \ Served(t)
  BY DEF ObservedTick
<1>2. ASSUME ~UnlocksFor(i, t)
      PROVE  slots[i].mac \notin Served(t)
  <2>. SUFFICES ASSUME NEW j \in Slot, UnlocksFor(j, t), slots[j].mac = slots[i].mac
                PROVE  FALSE
    BY DEF Served
  <2>1. slots[j].valid
    BY DEF UnlocksFor, WantsUnlock, Evaluated
  <2>2. i = j
    BY <2>1 DEF IInv, SlotsAreUnique
  <2>. QED
    BY <1>2, <2>2
<1>3. UnlocksFor(i, t) => slots[i].mac \in Served(t)
  BY DEF Served
<1>. QED
  BY <1>1, <1>2, <1>3

LEMMA TickKeepsIInv ==
  ASSUME IInv, NEW t \in NextTimes, ObservedTick(t), TypeOK'
  PROVE  IInv'
<1>. USE DEF IInv
<1>1. Tick(t) /\ UNCHANGED <<heard, strong>>
  BY DEF ObservedTick
<1>2. t \in Time /\ now \in Time /\ now <= t /\ t <= Horizon /\ now' = t
  BY <1>1, TickOnSlots
<1>3. ASSUME NEW i \in Slot
      PROVE  /\ FlagsOK(slots[i])' /\ StampsOK(slots[i])'
             /\ slots'[i].valid => slots[i].valid /\ slots'[i].mac = slots[i].mac
  <2>. DEFINE d == slots[i]
  <2>. DEFINE e == Evaluated(d, t)
  <2>1. d \in DeviceState /\ FlagsOK(d) /\ StampsOK(d)
    BY <1>1, TickOnSlots
  <2>2. CASE slots'[i] = d /\ ~UnlocksFor(i, t)
    <3>1. StampsOK(slots[i])'
      BY <1>1, <1>2, <2>1, <2>2 DEF StampsOK, DeviceState, Time
    <3>2. d.valid => (d.mac \in early => d.mac \in early')
      BY <2>2, EarlyAfterTick
    <3>3. FlagsOK(slots[i])'
      BY <2>1, <2>2, <3>2 DEF FlagsOK, EmptySlot
    <3>. QED
      BY <2>2, <3>1, <3>3
  <2>3. CASE slots'[i] = EmptySlot
    <3>1. FlagsOK(slots[i])' /\ StampsOK(slots[i])'
      BY <1>2, <2>3 DEF FlagsOK, StampsOK, EmptySlot, Time
    <3>. QED
      BY <2>3, <3>1 DEF EmptySlot
  <2>4. CASE slots'[i] = e /\ ~WantsUnlock(d, t)
    <3>1. /\ FlagsOK(e) /\ ~Repeats(e) /\ e.valid = d.valid /\ e.mac = d.mac
          /\ e.recent_obs = d.recent_obs /\ e.last_seen_ms = d.last_seen_ms
          /\ e.detected <=> d.detected /\ ~TimedOut(d, t)
      BY <1>2, <2>1, <2>4, EvaluationKeepsSlot
    <3>2. StampsOK(slots[i])'
      BY <1>1, <1>2, <2>1, <2>4, <3>1 DEF StampsOK, DeviceState, Time
    <3>3. FlagsOK(slots[i])'
      BY <2>4, <3>1 DEF FlagsOK, Repeats
    <3>. QED
      BY <2>4, <3>1, <3>2, <3>3
  <2>5. CASE /\ UnlocksFor(i, t) /\ WantsUnlock(d, t)
             /\ slots'[i] = [e EXCEPT !.unlock_set = (t # 0), !.went_undetected = FALSE]
    <3>1. d.valid /\ e.detected /\ d.recent_obs # << >>
      BY <1>2, <2>1, <2>5, UnlockIsArrival
    <3>2. e \in DeviceState /\ e.valid = d.valid /\ e.mac = d.mac
          /\ e.recent_obs = d.recent_obs /\ e.last_seen_ms = d.last_seen_ms
      <4>1. e = [d EXCEPT !.detected = PresentAt(d, t),
                          !.went_undetected = d.went_undetected \/ TimedOut(d, t)]
        BY <3>1 DEF Evaluated
      <4>2. e \in DeviceState
        BY <1>2, <2>1, EvaluatedType
      <4>. QED
        BY <2>1, <4>1, <4>2 DEF DeviceState
    <3>3. /\ slots'[i].valid /\ slots'[i].mac = d.mac /\ slots'[i].detected
          /\ slots'[i].unlock_set = (t # 0) /\ ~slots'[i].went_undetected
          /\ slots'[i].recent_obs = d.recent_obs /\ slots'[i].last_seen_ms = d.last_seen_ms
      BY <2>5, <3>1, <3>2 DEF DeviceState
    <3>4. StampsOK(slots[i])'
      BY <1>1, <1>2, <2>1, <3>1, <3>3 DEF StampsOK, DeviceState, Time
    <3>5. t = 0 => d.mac \in early'
      BY <2>5, <3>1, EarlyAfterTick
    <3>6. FlagsOK(slots[i])'
      BY <3>3, <3>5 DEF FlagsOK
    <3>. QED
      BY <3>1, <3>3, <3>4, <3>6
  <2>. QED
    BY <1>1, <2>2, <2>3, <2>4, <2>5, TickOnSlots
<1>4. SlotsAreUnique'
  BY <1>3 DEF SlotsAreUnique
<1>5. FlagsAgree' /\ StampsAreSightings'
  BY <1>3 DEF FlagsAgree, StampsAreSightings
<1>6. HistoryOK' /\ (StartTime <= now)' /\ (now <= Horizon)'
  <2>1. (StartTime <= now)' /\ (now <= Horizon)'
    BY <1>1, <1>2, StateMachineAssumption DEF Time
  <2>2. Served(t) \subseteq Mac
    <3>. SUFFICES ASSUME NEW i \in Slot, UnlocksFor(i, t)
                  PROVE  slots[i].mac \in Mac
      BY DEF Served
    <3>1. slots[i].valid /\ StampsOK(slots[i])
      BY DEF UnlocksFor, WantsUnlock, Evaluated, StampsAreSightings
    <3>. QED
      BY <3>1 DEF StampsOK
  <2>3. early' \subseteq Mac
    BY <2>2 DEF ObservedTick, HistoryOK
  <2>4. owed' \in [Mac -> Time \cup {Never}]
    BY <1>2 DEF ObservedTick, HistoryOK
  <2>. QED
    BY <1>1, <2>1, <2>3, <2>4 DEF HistoryOK
<1>. QED
  BY <1>4, <1>5, <1>6

\* No device ever has two slots, whatever its configuration and the clock: no step
\* gives a device a slot while another slot holds it.
THEOREM SlotsAlwaysUnique == ObservedSpec => []SlotsAreUnique
<1>1. ObservedInit => SlotsAreUnique
  BY DEF ObservedInit, Init, SlotsAreUnique, EmptySlot
<1>2. TypeOK /\ SlotsAreUnique /\ [ObservedNext]_allVars => SlotsAreUnique'
  <2>. SUFFICES ASSUME TypeOK, SlotsAreUnique, [ObservedNext]_allVars
                PROVE  SlotsAreUnique'
    OBVIOUS
  <2>1. \A i \in Slot, m \in Mac : /\ FoundOrCreated(i, m) \in DeviceState
                                  /\ slots[i] \in DeviceState
    BY FoundOrCreatedType DEF TypeOK
  <2>2. ASSUME NEW m \in Mac, NEW i \in Slot, NEW d \in DeviceState, IsSlotFor(i, m),
               d.mac = FoundOrCreated(i, m).mac, slots' = [slots EXCEPT ![i] = d]
        PROVE  SlotsAreUnique'
    <3>1. d.mac = m
      BY <2>2, <2>1 DEF IsSlotFor, Holds, FoundOrCreated, EmptySlot
    <3>2. \A j \in Slot : j # i => ~Holds(j, m)
      BY <2>2 DEF IsSlotFor, Holds, SlotsAreUnique
    <3>3. slots'[i] = d /\ \A j \in Slot : j # i => slots'[j] = slots[j]
      BY <2>2 DEF TypeOK
    <3>. QED
      BY <3>1, <3>2, <3>3 DEF SlotsAreUnique, Holds
  <2>3. ASSUME NEW m \in Mac, NEW rssi \in Rssi, Feed(m, rssi)
        PROVE  SlotsAreUnique'
    <3>1. now \in Time
      BY DEF TypeOK
    <3>2. \A i \in Slot : LET f == FoundOrCreated(i, m)
                          IN  Observed(f, rssi, now) \in DeviceState
                              /\ Observed(f, rssi, now).mac = f.mac
      BY <2>1, <3>1, ObservedType DEF Observed, DeviceState
    <3>3. CASE UNCHANGED slots
      BY <3>3 DEF SlotsAreUnique
    <3>. QED
      BY <2>2, <2>3, <3>2, <3>3 DEF Feed
  <2>4. ASSUME NEW m \in Mac, NEW cfg \in Config, UpdateDeviceConfig(m, cfg)
        PROVE  SlotsAreUnique'
    <3>1. \A i \in Slot : LET f == FoundOrCreated(i, m)
                          IN  [f EXCEPT !.dev_config = cfg] \in DeviceState
                              /\ [f EXCEPT !.dev_config = cfg].mac = f.mac
      BY <2>1 DEF DeviceState
    <3>2. CASE UNCHANGED slots
      BY <3>2 DEF SlotsAreUnique
    <3>. QED
      BY <2>2, <2>4, <3>1, <3>2 DEF UpdateDeviceConfig
  <2>5. CASE \A i \in Slot : slots'[i].valid => slots[i].valid /\ slots'[i].mac = slots[i].mac
    BY <2>5 DEF SlotsAreUnique
  <2>6. ASSUME NEW m \in Mac, RemoveDevice(m)
        PROVE  SlotsAreUnique'
    <3>1. \A i \in Slot : slots'[i].valid => slots'[i] = slots[i]
      BY <2>6 DEF RemoveDevice, EmptySlot
    <3>. QED
      BY <3>1, <2>5
  <2>7. ASSUME NEW t \in NextTimes, Tick(t)
        PROVE  SlotsAreUnique'
    <3>1. ASSUME NEW i \in Slot
          PROVE  slots'[i].valid => slots[i].valid /\ slots'[i].mac = slots[i].mac
      <4>. DEFINE e == Evaluated(slots[i], t)
      <4>1. t \in Time
        BY StateMachineAssumption DEF NextTimes, TypeOK, Time
      <4>2. e.valid = slots[i].valid /\ e.mac = slots[i].mac /\ e \in DeviceState
        BY <2>1, <4>1, EvaluatedType, EvaluatedIdentity DEF TypeOK
      <4>3. \/ slots'[i] = slots[i] \/ slots'[i] = e \/ slots'[i] = Cleaned(e, t)
            \/ slots'[i] = [e EXCEPT !.unlock_set = (t # 0), !.went_undetected = FALSE]
        BY <2>7 DEF Tick, TickUnlock, TickNoOp
      <4>4. Cleaned(e, t) = e \/ ~Cleaned(e, t).valid
        BY DEF Cleaned, EmptySlot
      <4>. HIDE DEF e
      <4>5. LET c == [e EXCEPT !.unlock_set = (t # 0), !.went_undetected = FALSE]
            IN  c.valid = e.valid /\ c.mac = e.mac
        BY <4>2 DEF DeviceState
      <4>. QED
        BY <4>2, <4>3, <4>4, <4>5
    <3>. QED
      BY <3>1, <2>5
  <2>8. CASE UNCHANGED allVars
    BY <2>8 DEF allVars, SlotsAreUnique
  <2>. QED
    BY <2>3, <2>4, <2>6, <2>7, <2>8 DEF ObservedNext, ObservedFeed,
       ObservedUpdate, ObservedRemove, ObservedTick
<1>3. ObservedSpec => []TypeOK
  <2>1. ObservedInit => TypeOK
    BY InitType DEF ObservedInit
  <2>2. TypeOK /\ [ObservedNext]_allVars => TypeOK'
    <3>1. [ObservedNext]_allVars => [Next]_vars
      BY DEF ObservedNext, ObservedFeed, ObservedUpdate, ObservedRemove,
             ObservedTick, Next, allVars, vars
    <3>. QED
      BY <3>1, NextKeepsType
  <2>. QED
    BY <2>1, <2>2, PTL DEF ObservedSpec
<1>. QED
  BY <1>1, <1>2, <1>3, PTL DEF ObservedSpec

\* The invariant holds throughout, whatever the caller feeds, configures and removes,
\* whenever its clock starts, and whenever it ticks.
THEOREM InvariantHolds == ObservedSpec => []IInv
<1>1. ObservedInit => IInv
  <2>. SUFFICES ASSUME ObservedInit
                PROVE  IInv
    OBVIOUS
  <2>1. TypeOK
    BY InitType DEF ObservedInit
  <2>2. HistoryOK
    BY DEF ObservedInit, HistoryOK
  <2>3. \A i \in Slot : slots[i] = EmptySlot
    BY DEF ObservedInit, Init
  <2>4. SlotsAreUnique /\ FlagsAgree /\ StampsAreSightings
    BY <2>1, <2>3 DEF SlotsAreUnique, FlagsAgree, FlagsOK, StampsAreSightings, StampsOK,
                      EmptySlot, TypeOK, Time
  <2>. QED
    BY <2>1, <2>2, <2>4, StateMachineAssumption DEF IInv, ObservedInit, Init
<1>2. IInv /\ [ObservedNext]_allVars => IInv'
  <2>. SUFFICES ASSUME IInv, [ObservedNext]_allVars
                PROVE  IInv'
    OBVIOUS
  <2>1. TypeOK'
    <3>1. [Next]_vars
      BY DEF ObservedNext, ObservedFeed, ObservedUpdate, ObservedRemove,
             ObservedTick, Next, allVars, vars
    <3>. QED
      BY <3>1, NextKeepsType DEF IInv
  <2>2. ASSUME NEW m \in Mac, NEW rssi \in Rssi, ObservedFeed(m, rssi)
        PROVE  IInv'
    BY <2>1, <2>2, FeedKeepsIInv
  <2>3. ASSUME NEW m \in Mac, NEW cfg \in Config, ObservedUpdate(m, cfg)
        PROVE  IInv'
    BY <2>1, <2>3, UpdateKeepsIInv
  <2>4. ASSUME NEW m \in Mac, ObservedRemove(m)
        PROVE  IInv'
    BY <2>1, <2>4, RemoveKeepsIInv
  <2>5. ASSUME NEW t \in NextTimes, ObservedTick(t)
        PROVE  IInv'
    BY <2>1, <2>5, TickKeepsIInv
  <2>6. CASE UNCHANGED allVars
    BY <2>1, <2>6 DEF allVars, IInv, HistoryOK, SlotsAreUnique, FlagsAgree, FlagsOK,
                      StampsAreSightings, StampsOK
  <2>. QED
    BY <2>2, <2>3, <2>4, <2>5, <2>6 DEF ObservedNext
<1>. QED
  BY <1>1, <1>2, PTL DEF ObservedSpec

\* Unlock bookkeeping is never torn: a detected device has had its Unlock and none is
\* due, although tick() returns from the middle of its loop.
THEOREM FlagsAlwaysAgree == ObservedSpec => []FlagsAgree
<1>1. IInv => FlagsAgree
  BY DEF IInv
<1>. QED
  BY <1>1, InvariantHolds, PTL

\* The stamps that tick() judges by are those of real sightings.
THEOREM StampsAlwaysSightings == ObservedSpec => []StampsAreSightings
<1>1. IInv => StampsAreSightings
  BY DEF IInv
<1>. QED
  BY <1>1, InvariantHolds, PTL

-------------------------------------------------------------------------------
\* What an entry is based on: a strong sighting within the entry window.
LEMMA EntryHasEvidence ==
  ASSUME IInv, NEW i \in Slot, NEW t \in Time, now <= t, slots[i].valid, Enters(slots[i], t)
  PROVE  LET m == slots[i].mac
             w == slots[i].dev_config.enter_window_ms IN
         /\ m \in Mac /\ w \in Nat
         /\ strong[m] \in Nat /\ t - strong[m] <= w
         /\ slots[i].last_seen_ms \in Nat /\ t - slots[i].last_seen_ms <= w
<1>. DEFINE d == slots[i]
<1>. DEFINE w == d.dev_config.enter_window_ms
<1>1. /\ d \in DeviceState /\ StampsOK(d)
      /\ HistoryOK /\ now \in Time
  BY DEF IInv, TypeOK, StampsAreSightings
<1>2. PICK p \in DOMAIN d.recent_obs :
        Elapsed(t, d.recent_obs[p]) <= d.dev_config.enter_window_ms
  BY <1>1, EntryNeedsObservation
<1>3. d.recent_obs[p] \in Time /\ d.last_seen_ms \in Time /\ d.recent_obs # << >>
  BY <1>1, <1>2, ElementOfSeq DEF DeviceState
<1>4. d.mac \in Mac
  BY <1>1 DEF StampsOK
<1>5. strong[d.mac] \in Int
  BY <1>1, <1>4 DEF HistoryOK, Time, Never
<1>6. /\ d.recent_obs[p] <= strong[d.mac]
      /\ strong[d.mac] <= d.last_seen_ms
      /\ d.last_seen_ms <= now
  BY <1>1, <1>3 DEF StampsOK
<1>7. w \in Nat
  BY <1>1, ConfigAssumption DEF DeviceState
<1>8. t - d.recent_obs[p] <= w
  BY <1>1, <1>2, <1>3, <1>5, <1>6 DEF Elapsed, Time
<1>. QED
  BY <1>1, <1>3, <1>4, <1>5, <1>6, <1>7, <1>8 DEF Time

\* No door is opened for a device without a recent strong sighting, whatever the
\* configuration and the start of the clock.
THEOREM SilentNeverUnlock == ObservedSpec => UnlockNeedsSighting
<1>1. ASSUME IInv, NEW t \in NextTimes, NEW i \in Slot, UnlocksFor(i, t), ~Repeats(slots[i])
      PROVE  /\ strong[slots[i].mac] # Never
             /\ t - strong[slots[i].mac] <= slots[i].dev_config.enter_window_ms
  <2>1. t \in Time /\ now <= t
    BY <1>1, StateMachineAssumption DEF NextTimes, IInv, TypeOK, Time
  <2>2. slots[i] \in DeviceState /\ FlagsOK(slots[i]) /\ StampsOK(slots[i])
    BY <1>1 DEF IInv, TypeOK, FlagsAgree, StampsAreSightings
  <2>3. slots[i].valid /\ Enters(slots[i], t)
    BY <1>1, <2>1, <2>2, UnlockIsArrival DEF UnlocksFor
  <2>. QED
    BY <1>1, <2>1, <2>3, EntryHasEvidence DEF Never
<1>2. IInv /\ [ObservedNext]_allVars =>
        [\A t \in NextTimes, i \in Slot :
           TickUnlock(t) /\ UnlocksFor(i, t) /\ ~Repeats(slots[i]) =>
             /\ strong[slots[i].mac] # Never
             /\ t - strong[slots[i].mac] <= slots[i].dev_config.enter_window_ms]_allVars
  BY <1>1
<1>. QED
  BY <1>2, InvariantHolds, PTL DEF ObservedSpec, UnlockNeedsSighting

-------------------------------------------------------------------------------
\* The steps of the refinement: each call is a step of Presence or a stutter.

\* What Presence sees of the table, slot by slot.
LEMMA SameSeen ==
  ASSUME \A i \in Slot :
           /\ slots'[i].valid /\ slots'[i].detected <=> slots[i].valid /\ slots[i].detected
           /\ slots[i].valid /\ slots[i].detected =>
                slots'[i].mac = slots[i].mac /\ slots'[i].unlock_set = slots[i].unlock_set
  PROVE  PresentMacs' = PresentMacs /\ RepeatMacs' = RepeatMacs
BY DEF PresentMacs, RepeatMacs, Repeats

LEMMA FeedIsHear ==
  ASSUME IInv, NEW m \in Mac, NEW rssi \in Rssi, ObservedFeed(m, rssi)
  PROVE  Abstract!Hear(m)
<1>. USE DEF IInv
<1>1. PresentMacs' = PresentMacs /\ RepeatMacs' = RepeatMacs
  <2>1. CASE UNCHANGED slots
    BY <2>1, SameSeen
  <2>2. ASSUME NEW i \in Slot, IsSlotFor(i, m),
               slots' = [slots EXCEPT ![i] = Observed(FoundOrCreated(i, m), rssi, now)]
        PROVE  PresentMacs' = PresentMacs /\ RepeatMacs' = RepeatMacs
    <3>1. /\ slots'[i] = Observed(FoundOrCreated(i, m), rssi, now)
          /\ \A j \in Slot : j # i => slots'[j] = slots[j]
      BY <2>2 DEF TypeOK
    <3>2. FoundOrCreated(i, m) \in DeviceState
      BY FoundOrCreatedType
    <3>3. slots'[i].valid /\ slots'[i].detected <=> slots[i].valid /\ slots[i].detected
      <4>1. slots'[i].detected = FoundOrCreated(i, m).detected
            /\ slots'[i].valid = FoundOrCreated(i, m).valid
        BY <3>1, <3>2 DEF Observed, DeviceState
      <4>. QED
        BY <4>1 DEF FoundOrCreated, EmptySlot
    <3>4. slots[i].valid => slots'[i].mac = slots[i].mac /\ slots'[i].unlock_set = slots[i].unlock_set
      BY <3>1, <3>2 DEF Observed, DeviceState, FoundOrCreated
    <3>. QED
      BY <3>1, <3>3, <3>4, SameSeen
  <2>. QED
    BY <2>1, <2>2 DEF ObservedFeed, Feed
<1>2. UNCHANGED <<now, action>>
  BY DEF ObservedFeed, Feed
<1>. QED
  BY <1>1, <1>2 DEF ObservedFeed, Abstract!Hear

LEMMA UpdateIsStutter ==
  ASSUME IInv, NEW m \in Mac, NEW cfg \in Config, ObservedUpdate(m, cfg)
  PROVE  UNCHANGED Abstract!vars
<1>. USE DEF IInv
<1>1. PresentMacs' = PresentMacs /\ RepeatMacs' = RepeatMacs
  <2>1. CASE UNCHANGED slots
    BY <2>1, SameSeen
  <2>2. ASSUME NEW i \in Slot, IsSlotFor(i, m),
               slots' = [slots EXCEPT ![i] = [FoundOrCreated(i, m) EXCEPT !.dev_config = cfg]]
        PROVE  PresentMacs' = PresentMacs /\ RepeatMacs' = RepeatMacs
    <3>1. /\ slots'[i] = [FoundOrCreated(i, m) EXCEPT !.dev_config = cfg]
          /\ \A j \in Slot : j # i => slots'[j] = slots[j]
      BY <2>2 DEF TypeOK
    <3>2. FoundOrCreated(i, m) \in DeviceState
      BY FoundOrCreatedType
    <3>3. slots'[i].valid /\ slots'[i].detected <=> slots[i].valid /\ slots[i].detected
      <4>1. slots'[i].detected = FoundOrCreated(i, m).detected
            /\ slots'[i].valid = FoundOrCreated(i, m).valid
        BY <3>1, <3>2 DEF DeviceState
      <4>. QED
        BY <4>1 DEF FoundOrCreated, EmptySlot
    <3>4. slots[i].valid => slots'[i].mac = slots[i].mac /\ slots'[i].unlock_set = slots[i].unlock_set
      BY <3>1, <3>2 DEF DeviceState, FoundOrCreated
    <3>. QED
      BY <3>1, <3>3, <3>4, SameSeen
  <2>. QED
    BY <2>1, <2>2 DEF ObservedUpdate, UpdateDeviceConfig
<1>. QED
  BY <1>1 DEF ObservedUpdate, UpdateDeviceConfig, Abstract!vars

LEMMA RemoveIsForget ==
  ASSUME IInv, NEW m \in Mac, ObservedRemove(m)
  PROVE  Abstract!Forget(m)
<1>1. \A i \in Slot : slots'[i] = IF Holds(i, m) THEN EmptySlot ELSE slots[i]
  BY DEF ObservedRemove, RemoveDevice
<1>2. PresentMacs' = PresentMacs \ {m} /\ RepeatMacs' = RepeatMacs \ {m}
  BY <1>1 DEF PresentMacs, RepeatMacs, Repeats, Holds, EmptySlot
<1>. QED
  BY <1>2 DEF ObservedRemove, RemoveDevice, Abstract!Forget

\* A device that times out has not been sighted strongly for that long.
LEMMA TimedOutMayLeave ==
  ASSUME IInv, NEW i \in Slot, NEW t \in Time, now <= t, slots[i].valid, TimedOut(slots[i], t)
  PROVE  /\ slots[i].mac \in PresentMacs
         /\ t - strong[slots[i].mac] >= MinTimeout
<1>. DEFINE d == slots[i]
<1>1. now \in Time /\ d \in DeviceState /\ StampsOK(d)
  BY DEF IInv, TypeOK, StampsAreSightings
<1>2. d.detected /\ d.recent_obs # << >> /\ d.mac \in Mac
  BY <1>1 DEF TimedOut, StampsOK
<1>3. d.last_seen_ms \in Time /\ d.last_seen_ms <= now
  BY <1>1 DEF StampsOK, DeviceState
<1>4. t - d.last_seen_ms >= d.dev_config.presence_timeout_ms
  BY <1>1, <1>3 DEF TimedOut, Elapsed, Time
<1>5. strong[d.mac] \in Int /\ strong[d.mac] <= d.last_seen_ms
  BY <1>1, <1>2 DEF StampsOK, IInv, HistoryOK, Time, Never
<1>6. /\ d.dev_config.presence_timeout_ms \in Nat
      /\ MinTimeout <= d.dev_config.presence_timeout_ms
  BY <1>1, ConfigAssumption, ObservedAssumption DEF DeviceState
<1>7. d.mac \in PresentMacs
  BY <1>2 DEF PresentMacs
<1>. QED
  BY <1>1, <1>3, <1>4, <1>5, <1>6, <1>7, ObservedAssumption DEF Time

\* Who leaves in a tick may leave: its slot was looked at, and timed out.
LEMMA TickLeavers ==
  ASSUME IInv, NEW t \in NextTimes, ObservedTick(t)
  PROVE  \A m \in PresentMacs : m \notin PresentMacs' => t - strong[m] >= MinTimeout
<1>. SUFFICES ASSUME NEW i \in Slot, slots[i].valid, slots[i].detected,
                     slots[i].mac \notin PresentMacs'
              PROVE  t - strong[slots[i].mac] >= MinTimeout
  BY DEF PresentMacs
<1>. DEFINE d == slots[i]
<1>. DEFINE e == Evaluated(d, t)
<1>1. /\ t \in Time /\ now \in Time /\ now <= t
      /\ d \in DeviceState /\ FlagsOK(d) /\ StampsOK(d)
  BY TickOnSlots DEF ObservedTick
<1>2. e \in DeviceState /\ e.valid /\ e.mac = d.mac
  BY <1>1, EvaluatedType, EvaluatedIdentity
<1>3. ~e.detected
  <2>1. CASE UnlocksFor(i, t) /\ slots'[i] = [e EXCEPT !.unlock_set = (t # 0), !.went_undetected = FALSE]
    <3>1. slots'[i].valid /\ slots'[i].mac = d.mac /\ slots'[i].detected = e.detected
      BY <1>2, <2>1 DEF DeviceState
    <3>. QED
      BY <3>1 DEF PresentMacs
  <2>2. CASE slots'[i] = d \/ slots'[i] = e
    BY <1>2, <2>2 DEF PresentMacs
  <2>. QED
    BY <2>1, <2>2, TickOnSlots DEF ObservedTick
<1>4. TimedOut(d, t)
  <2>1. ~WantsUnlock(d, t)
    BY <1>3 DEF WantsUnlock
  <2>. QED
    BY <1>1, <1>3, <2>1, EvaluationKeepsSlot
<1>. QED
  BY <1>1, <1>4, TimedOutMayLeave

LEMMA QuietTick ==
  ASSUME IInv, NEW t \in NextTimes, ObservedTick(t), TickNoOp(t)
  PROVE  Abstract!Quiet
<1>1. t \in Time /\ now \in Time /\ now <= t /\ now' = t
  BY TickOnSlots DEF ObservedTick
<1>2. ASSUME NEW i \in Slot
      PROVE  /\ slots[i] \in DeviceState /\ FlagsOK(slots[i]) /\ StampsOK(slots[i])
             /\ ~WantsUnlock(slots[i], t) /\ ~Repeats(Evaluated(slots[i], t))
             /\ slots'[i] = Cleaned(Evaluated(slots[i], t), t)
             /\ Evaluated(slots[i], t).valid = slots[i].valid
             /\ Evaluated(slots[i], t).mac = slots[i].mac
             /\ Evaluated(slots[i], t).unlock_set = slots[i].unlock_set
             /\ Evaluated(slots[i], t).detected <=> slots[i].detected /\ ~TimedOut(slots[i], t)
  <2>1. slots[i] \in DeviceState /\ FlagsOK(slots[i]) /\ StampsOK(slots[i])
    BY TickOnSlots DEF ObservedTick
  <2>2. ~WantsUnlock(slots[i], t) /\ slots'[i] = Cleaned(Evaluated(slots[i], t), t)
    BY DEF TickNoOp
  <2>. QED
    BY <1>1, <2>1, <2>2, EvaluationKeepsSlot
<1>3. ASSUME NEW i \in Slot, slots'[i].valid, slots'[i].detected
      PROVE  /\ slots'[i] = Evaluated(slots[i], t)
             /\ slots'[i].mac = slots[i].mac /\ slots[i].valid /\ slots[i].detected
             /\ ~Repeats(slots'[i]) /\ ~Repeats(slots[i])
             /\ t - heard[slots[i].mac] < MaxTimeout \/ strong[slots[i].mac] = 0
  <2>. DEFINE d == slots[i]
  <2>1. slots'[i] = Evaluated(d, t)
    BY <1>2, <1>3 DEF Cleaned, EmptySlot
  <2>2. /\ d \in DeviceState /\ FlagsOK(d) /\ StampsOK(d) /\ d.valid /\ d.detected
        /\ ~TimedOut(d, t) /\ slots'[i].mac = d.mac /\ slots'[i].unlock_set = d.unlock_set
        /\ ~Repeats(slots'[i])
    BY <1>2, <1>3, <2>1
  <2>3. ~Repeats(d)
    BY <1>3, <2>2 DEF Repeats
  <2>4. /\ d.last_seen_ms \in Time /\ d.last_seen_ms <= now
        /\ d.recent_obs # << >> /\ d.mac \in Mac
    BY <2>2 DEF StampsOK, DeviceState
  <2>5. heard[d.mac] \in Int /\ strong[d.mac] \in Int
    BY <2>4 DEF IInv, HistoryOK, Time, Never
  <2>6. strong[d.mac] <= d.last_seen_ms /\ d.last_seen_ms <= heard[d.mac]
    BY <2>2, <2>4 DEF StampsOK
  <2>7. CASE d.last_seen_ms = 0
    <3>1. d.recent_obs[1] \in Time /\ d.recent_obs[1] <= strong[d.mac]
      BY <2>2, <2>4 DEF DeviceState, StampsOK
    <3>2. strong[d.mac] = 0
      BY <2>5, <2>6, <2>7, <3>1 DEF Time
    <3>. QED
      BY <1>3, <2>1, <2>2, <2>3, <3>2
  <2>8. CASE d.last_seen_ms # 0
    <3>1. /\ d.dev_config.presence_timeout_ms \in Nat
          /\ d.dev_config.presence_timeout_ms <= MaxTimeout
      BY <2>2, ConfigAssumption, ObservedAssumption DEF DeviceState
    <3>2. ~(t - d.last_seen_ms >= d.dev_config.presence_timeout_ms)
      BY <1>1, <2>2, <2>4, <2>8 DEF TimedOut, Elapsed, Time
    <3>3. t - heard[d.mac] < MaxTimeout
      BY <1>1, <2>4, <2>5, <2>6, <3>1, <3>2, ObservedAssumption DEF Time
    <3>. QED
      BY <1>3, <2>1, <2>2, <2>3, <3>3
  <2>. QED
    BY <2>7, <2>8
<1>4. PresentMacs' \subseteq PresentMacs
  BY <1>3 DEF PresentMacs
<1>5. \A m \in PresentMacs' : now' - heard[m] < MaxTimeout \/ strong[m] = 0
  BY <1>1, <1>3 DEF PresentMacs
<1>. DEFINE gone == PresentMacs \ PresentMacs'
<1>6. gone \subseteq Abstract!MayLeave
  BY <1>1, TickLeavers DEF Abstract!MayLeave
<1>7. PresentMacs' = PresentMacs \ gone /\ gone \in SUBSET PresentMacs
  BY <1>4
<1>8. RepeatMacs' = {}
  BY <1>3 DEF RepeatMacs, Repeats
<1>9. RepeatMacs \subseteq gone
  <2>. SUFFICES ASSUME NEW i \in Slot, slots[i].valid, Repeats(slots[i]),
                       slots[i].mac \in PresentMacs'
                PROVE  FALSE
    BY DEF RepeatMacs, PresentMacs, Repeats
  <2>1. PICK j \in Slot : slots'[j].valid /\ slots'[j].detected /\ slots'[j].mac = slots[i].mac
    BY DEF PresentMacs
  <2>2. slots[j].valid /\ slots[j].mac = slots[i].mac /\ ~Repeats(slots[j])
    BY <1>3, <2>1
  <2>. QED
    BY <2>2 DEF IInv, SlotsAreUnique
<1>10. now' \in Nat /\ now' >= now
  BY <1>1 DEF Time
<1>11. UNCHANGED <<heard, strong>> /\ action' = "NoOp"
  BY DEF ObservedTick, TickNoOp
<1>. HIDE DEF gone
<1>12. Abstract!Decide(gone)
  BY <1>6, <1>10, <1>11 DEF Abstract!Decide
<1>. QED
  BY <1>5, <1>7, <1>8, <1>9, <1>11, <1>12 DEF Abstract!Quiet

LEMMA UnlockTick ==
  ASSUME IInv, NEW t \in NextTimes, ObservedTick(t), TickUnlock(t)
  PROVE  \E m \in Mac : Abstract!Arrive(m) \/ Abstract!Repeat(m)
<1>1. t \in Time /\ now \in Time /\ now <= t /\ now' = t
  BY TickOnSlots DEF ObservedTick
<1>2. PICK k \in Slot :
        /\ WantsUnlock(slots[k], t)
        /\ \A j \in 1 .. (k - 1) : ~WantsUnlock(slots[j], t)
        /\ slots' = [i \in Slot |->
             IF i < k THEN Evaluated(slots[i], t)
             ELSE IF i = k THEN [Evaluated(slots[k], t) EXCEPT
                                   !.unlock_set = (t # 0), !.went_undetected = FALSE]
             ELSE slots[i]]
  BY DEF TickUnlock
<1>. DEFINE m == slots[k].mac
<1>3. \A i \in Slot : slots[i] \in DeviceState /\ FlagsOK(slots[i]) /\ StampsOK(slots[i])
  BY TickOnSlots DEF ObservedTick
<1>4. /\ slots[k].valid /\ Evaluated(slots[k], t).detected
      /\ Enters(slots[k], t) \/ (Repeats(slots[k]) /\ ~TimedOut(slots[k], t))
  BY <1>1, <1>2, <1>3, UnlockIsArrival
<1>5. /\ slots'[k].valid /\ slots'[k].detected /\ slots'[k].mac = m
      /\ slots'[k].unlock_set = (t # 0)
  <2>1. Evaluated(slots[k], t) \in DeviceState
    BY <1>1, <1>3, EvaluatedType
  <2>2. Evaluated(slots[k], t).valid /\ Evaluated(slots[k], t).mac = m
    BY <1>3, <1>4, EvaluatedIdentity
  <2>3. ~(k < k)
    BY DEF Slot
  <2>4. slots'[k] = [Evaluated(slots[k], t) EXCEPT
                       !.unlock_set = (t # 0), !.went_undetected = FALSE]
    BY <1>2, <2>3
  <2>. QED
    BY <1>4, <2>1, <2>2, <2>4 DEF DeviceState
<1>6. ASSUME NEW i \in Slot, i # k
      PROVE  /\ slots'[i].valid /\ slots'[i].detected =>
                  slots[i].valid /\ slots[i].detected /\ slots'[i].mac = slots[i].mac
             /\ slots'[i].valid /\ Repeats(slots'[i]) => Repeats(slots[i])
             /\ slots[i].valid /\ Repeats(slots[i]) =>
                  \/ ~slots'[i].detected
                  \/ slots'[i] = slots[i]
  <2>1. CASE i < k
    <3>1. i \in 1 .. (k - 1)
      BY <2>1 DEF Slot
    <3>2. ~WantsUnlock(slots[i], t) /\ slots'[i] = Evaluated(slots[i], t)
      BY <1>2, <2>1, <3>1
    <3>3. /\ slots'[i].valid = slots[i].valid /\ slots'[i].mac = slots[i].mac
          /\ slots'[i].detected => slots[i].detected
          /\ ~Repeats(slots'[i]) /\ slots'[i].unlock_set = slots[i].unlock_set
      BY <1>1, <1>3, <3>2, EvaluationKeepsSlot
    <3>. QED
      BY <3>3 DEF Repeats
  <2>2. CASE ~(i < k)
    BY <1>2, <1>6, <2>2
  <2>. QED
    BY <2>1, <2>2
<1>. DEFINE back == IF TimedOut(slots[k], t) THEN {m} ELSE {}
<1>. DEFINE gone == (PresentMacs \ PresentMacs') \cup back
<1>7. gone \subseteq PresentMacs /\ gone \subseteq Abstract!MayLeave
  <2>1. TimedOut(slots[k], t) => m \in PresentMacs /\ t - strong[m] >= MinTimeout
    BY <1>1, <1>4, TimedOutMayLeave
  <2>2. \A x \in gone : x \in PresentMacs /\ t - strong[x] >= MinTimeout
    BY <2>1, TickLeavers
  <2>. QED
    BY <1>1, <2>2 DEF Abstract!MayLeave
<1>8. m \in PresentMacs' /\ PresentMacs' \subseteq PresentMacs \cup {m}
  BY <1>5, <1>6 DEF PresentMacs
<1>9. ASSUME NEW x, x # m
      PROVE  x \in RepeatMacs' <=> x \in RepeatMacs /\ x \in PresentMacs'
  <2>1. ASSUME NEW i \in Slot, slots'[i].valid, Repeats(slots'[i]), x = slots'[i].mac
        PROVE  x \in RepeatMacs /\ x \in PresentMacs'
    <3>1. i # k
      BY <1>5, <1>9, <2>1
    <3>2. slots'[i].detected
      BY <2>1 DEF Repeats
    <3>. QED
      BY <1>6, <2>1, <3>1, <3>2 DEF RepeatMacs, PresentMacs
  <2>2. ASSUME NEW i \in Slot, slots[i].valid, Repeats(slots[i]), x = slots[i].mac,
               NEW j \in Slot, slots'[j].valid, slots'[j].detected, x = slots'[j].mac
        PROVE  x \in RepeatMacs'
    <3>1. i # k /\ j # k
      BY <1>5, <1>9, <2>2
    <3>2. slots[j].valid /\ slots[j].mac = x
      BY <1>6, <2>2, <3>1
    <3>3. i = j
      BY <2>2, <3>2 DEF IInv, SlotsAreUnique
    <3>4. slots'[i] = slots[i]
      BY <1>6, <2>2, <3>1, <3>3
    <3>. QED
      BY <2>2, <3>4 DEF RepeatMacs
  <2>. QED
    BY <2>1, <2>2 DEF RepeatMacs, PresentMacs
<1>10. m \in RepeatMacs' <=> t = 0
  <2>1. ASSUME NEW i \in Slot, i # k, slots'[i].valid, Repeats(slots'[i]), m = slots'[i].mac
        PROVE  FALSE
    <3>1. slots[i].valid /\ slots[i].mac = m
      BY <1>6, <2>1 DEF Repeats
    <3>. QED
      BY <1>4, <2>1, <3>1 DEF IInv, SlotsAreUnique
  <2>2. m \in RepeatMacs' => Repeats(slots'[k])
    BY <2>1 DEF RepeatMacs
  <2>. QED
    BY <1>5, <2>2 DEF RepeatMacs, Repeats
<1>11. UNCHANGED <<heard, strong>> /\ action' = "Unlock" /\ now' \in Nat /\ now' >= now
  BY <1>1 DEF ObservedTick, TickUnlock, Time
<1>12. Abstract!Decide(gone)
  BY <1>7, <1>11 DEF Abstract!Decide
<1>13. m \in Mac
  BY <1>3, <1>4 DEF StampsOK
<1>14. RepeatMacs \subseteq PresentMacs
  BY DEF RepeatMacs, PresentMacs, Repeats
<1>15. CASE Enters(slots[k], t)
  <2>1. strong[m] \in Nat /\ t - strong[m] <= MaxWindow
    <3>1. /\ slots[k].dev_config.enter_window_ms <= MaxWindow
          /\ slots[k].dev_config.enter_window_ms \in Nat
      BY <1>3, ObservedAssumption, ConfigAssumption DEF DeviceState
    <3>2. strong[m] \in Nat /\ t - strong[m] <= slots[k].dev_config.enter_window_ms
      BY <1>1, <1>4, <1>15, EntryHasEvidence
    <3>. QED
      BY <1>1, <3>1, <3>2, ObservedAssumption DEF Time
  <2>2. m \notin PresentMacs \ gone
    <3>1. slots[k].detected => TimedOut(slots[k], t)
      BY <1>15 DEF Enters
    <3>2. m \in PresentMacs => slots[k].detected
      BY <1>4 DEF PresentMacs, IInv, SlotsAreUnique
    <3>. QED
      BY <3>1, <3>2
  <2>3. PresentMacs' = (PresentMacs \ gone) \cup {m}
    BY <1>8
  <2>4. RepeatMacs' = (RepeatMacs \ gone) \cup (IF now' = 0 THEN {m} ELSE {})
    <3>1. ASSUME NEW x, x # m
          PROVE  x \in RepeatMacs' <=> x \in (RepeatMacs \ gone) \cup (IF now' = 0 THEN {m} ELSE {})
      BY <1>9, <1>14, <3>1
    <3>2. m \in RepeatMacs' <=> m \in (RepeatMacs \ gone) \cup (IF now' = 0 THEN {m} ELSE {})
      BY <1>1, <1>10, <1>14, <2>2
    <3>. QED
      BY <3>1, <3>2
  <2>5. gone \in SUBSET PresentMacs /\ strong[m] >= 0 /\ now' - strong[m] <= MaxWindow
    BY <1>1, <1>7, <2>1
  <2>. HIDE DEF gone, m
  <2>6. Abstract!Arrive(m)
    BY <1>11, <1>12, <2>2, <2>3, <2>4, <2>5 DEF Abstract!Arrive
  <2>. QED
    BY <1>13, <2>6
<1>16. CASE Repeats(slots[k]) /\ ~TimedOut(slots[k], t)
  <2>1. m \in RepeatMacs
    BY <1>4, <1>16 DEF RepeatMacs
  <2>2. gone = PresentMacs \ PresentMacs' /\ m \notin gone
    BY <1>8, <1>16
  <2>3. PresentMacs' = PresentMacs \ gone
    BY <1>8, <1>14, <2>1, <2>2
  <2>4. RepeatMacs' = (RepeatMacs \ gone) \ (IF now' = 0 THEN {} ELSE {m})
    <3>1. ASSUME NEW x, x # m
          PROVE  x \in RepeatMacs' <=> x \in (RepeatMacs \ gone) \ (IF now' = 0 THEN {} ELSE {m})
      BY <1>9, <1>14, <2>2, <3>1
    <3>2. m \in RepeatMacs' <=> m \in (RepeatMacs \ gone) \ (IF now' = 0 THEN {} ELSE {m})
      BY <1>1, <1>10, <2>1, <2>2
    <3>. QED
      BY <3>1, <3>2
  <2>5. gone \in SUBSET PresentMacs /\ m \in RepeatMacs \ gone
    BY <1>7, <2>1, <2>2
  <2>. HIDE DEF gone, m
  <2>6. Abstract!Repeat(m)
    BY <1>11, <1>12, <2>3, <2>4, <2>5 DEF Abstract!Repeat
  <2>. QED
    BY <1>13, <2>6
<1>. QED
  BY <1>4, <1>15, <1>16

\* The state machine keeps its promise, for every configuration and start of the
\* clock: the door is unlocked exactly for arrivals, one at a time, and nobody stays
\* present who has been silent for the longest timeout.
THEOREM StateMachineImplementsPresence == ObservedSpec => ImplementsPresence
<1>1. ObservedInit => Abstract!Init
  BY StateMachineAssumption
     DEF ObservedInit, Init, Abstract!Init, PresentMacs, RepeatMacs, EmptySlot, Never
<1>2. IInv /\ [ObservedNext]_allVars => [Abstract!Next]_(Abstract!vars)
  <2>. SUFFICES ASSUME IInv, [ObservedNext]_allVars
                PROVE  Abstract!Next \/ UNCHANGED Abstract!vars
    OBVIOUS
  <2>1. ASSUME NEW m \in Mac, NEW rssi \in Rssi, ObservedFeed(m, rssi)
        PROVE  Abstract!Next
    BY <2>1, FeedIsHear DEF Abstract!Next
  <2>2. ASSUME NEW m \in Mac, NEW cfg \in Config, ObservedUpdate(m, cfg)
        PROVE  UNCHANGED Abstract!vars
    BY <2>2, UpdateIsStutter
  <2>3. ASSUME NEW m \in Mac, ObservedRemove(m)
        PROVE  Abstract!Next
    BY <2>3, RemoveIsForget DEF Abstract!Next
  <2>4. ASSUME NEW t \in NextTimes, ObservedTick(t)
        PROVE  Abstract!Next
    BY <2>4, QuietTick, UnlockTick DEF ObservedTick, Tick, Abstract!Next
  <2>5. CASE UNCHANGED allVars
    BY <2>5 DEF allVars, Abstract!vars, PresentMacs, RepeatMacs
  <2>. QED
    BY <2>1, <2>2, <2>3, <2>4, <2>5 DEF ObservedNext
<1>. QED
  BY <1>1, <1>2, InvariantHolds, PTL DEF ObservedSpec, ImplementsPresence, Abstract!Spec

-------------------------------------------------------------------------------
(***************************************************************************)
(* Everybody's turn comes.  A device that was passed over waits one tick   *)
(* for each slot before its own at most: each tick that passes it over     *)
(* unlocks for one of those, whose device then stays detected, stamped and *)
(* too fresh to be timed out while the wait lasts.                         *)
(***************************************************************************)

\* Timeouts outlast two windows (40 s and 10 s by default).
TimeoutsOutlastWindows == 2 * MaxWindow < MinTimeout

\* The slots before i that have had their Unlock and will want none while i waits.
Settled(i, since) ==
  {j \in 1 .. (i - 1) : /\ slots[j].detected /\ slots[j].unlock_set
                        /\ since <= slots[j].last_seen_ms + MaxWindow}

\* What is true of slot i from the tick that passed it over until its Unlock.
InTurn(i, since) ==
  /\ since # 0 /\ since <= now
  /\ MaxTickGap * (i - 1) <= MaxWindow
  /\ ~(slots[i].detected /\ slots[i].unlock_set)
  /\ Cardinality(InWindow(slots[i], since + MaxTickGap * (i - 1))) >= slots[i].dev_config.enter_min_count
  /\ now - since + MaxTickGap <= MaxTickGap * Cardinality(Settled(i, since))
  /\ \A j \in 1 .. (i - 1) : ~Repeats(slots[j])

OwedInTurn ==
  \A i \in Slot : slots[i].valid /\ owed[slots[i].mac] # Never => InTurn(i, owed[slots[i].mac])

OwedHaveSlots == \A m \in Mac : owed[m] # Never => \E i \in Slot : Holds(i, m)

NobodyOwedWhenQuiet == action = "NoOp" => \A m \in Mac : owed[m] = Never

TurnsInv == OwedInTurn /\ OwedHaveSlots /\ NobodyOwedWhenQuiet

\* Multiplication by MaxTickGap keeps the order and adds up.
LEMMA GapTimes ==
  ASSUME NEW n \in Nat, NEW k \in Nat, n <= k
  PROVE  /\ MaxTickGap * n \in Nat /\ MaxTickGap * k \in Nat
         /\ MaxTickGap * n <= MaxTickGap * k
         /\ MaxTickGap * (n + 1) = MaxTickGap * n + MaxTickGap
<1>1. MaxTickGap \in Nat
  BY StateMachineAssumption
<1>2. \A x, y \in Nat : x * y \in Nat /\ x * (y + 1) = x * y + x
  OBVIOUS
<1>3. \A x, y, z \in Nat : x * (y + z) = x * y + x * z
  OBVIOUS
<1>4. PICK r \in Nat : k = n + r
  <2>1. k - n \in Nat /\ k = n + (k - n)
    OBVIOUS
  <2>. QED
    BY <2>1
<1>5. MaxTickGap * k = MaxTickGap * n + MaxTickGap * r
  BY <1>1, <1>3, <1>4
<1>6. MaxTickGap * n \in Nat /\ MaxTickGap * r \in Nat
  BY <1>1, <1>2, <1>4
<1>7. MaxTickGap * n <= MaxTickGap * k
  BY <1>5, <1>6
<1>. QED
  BY <1>1, <1>2, <1>5, <1>6, <1>7

\* No more slots are settled than there are before i; one more leaves room for one less.
LEMMA SettledIsSmall ==
  ASSUME NEW i \in Slot, NEW since
  PROVE  /\ IsFiniteSet(Settled(i, since)) /\ Cardinality(Settled(i, since)) \in 0 .. (i - 1)
         /\ \A k \in 1 .. (i - 1) : k \notin Settled(i, since) =>
              Cardinality(Settled(i, since) \cup {k}) = Cardinality(Settled(i, since)) + 1
<1>1. /\ i \in Nat \ {0} /\ IsFiniteSet(1 .. (i - 1)) /\ Cardinality(1 .. (i - 1)) = i - 1
  <2>1. i \in Nat \ {0}
    BY StateMachineAssumption DEF Slot
  <2>2. Cardinality(1 .. (i - 1)) = IF 1 > i - 1 THEN 0 ELSE (i - 1) - 1 + 1
    BY <2>1, FS_Interval
  <2>. QED
    BY <2>1, <2>2, FS_Interval
<1>2. Settled(i, since) \subseteq 1 .. (i - 1)
  BY DEF Settled
<1>3. IsFiniteSet(Settled(i, since)) /\ Cardinality(Settled(i, since)) <= i - 1
  BY <1>1, <1>2, FS_Subset
<1>4. Cardinality(Settled(i, since)) \in 0 .. (i - 1)
  BY <1>1, <1>3, FS_CardinalityType
<1>. QED
  BY <1>3, <1>4, FS_AddElement

\* What is settled after a step is at least what is known to be.
LEMMA MoreSettled ==
  ASSUME NEW i \in Slot, NEW since, NEW S, S \subseteq Settled(i, since)'
  PROVE  /\ Cardinality(S) \in Nat /\ Cardinality(S) <= Cardinality(Settled(i, since)')
         /\ Cardinality(Settled(i, since)') \in Nat
<1>1. i \in Nat \ {0}
  BY StateMachineAssumption DEF Slot
<1>2. IsFiniteSet(1 .. (i - 1)) /\ Settled(i, since)' \subseteq 1 .. (i - 1)
  BY <1>1, FS_Interval DEF Settled
<1>3. IsFiniteSet(Settled(i, since)')
  BY <1>2, FS_Subset
<1>. QED
  BY <1>3, FS_Subset, FS_CardinalityType

\* The bound on a wait follows from the number of slots before i.
LEMMA WaitIsShort ==
  ASSUME NEW i \in Slot, NEW since \in Time, now \in Time, InTurn(i, since)
  PROVE  /\ now + MaxTickGap <= since + MaxTickGap * (i - 1)
         /\ MaxTickGap * (i - 1) \in Nat
         /\ now - since <= MaxTickGap * (i - 2)
<1>. DEFINE n == Cardinality(Settled(i, since))
<1>1. n \in Nat /\ i \in Nat /\ i - 1 \in Nat /\ n <= i - 1 /\ MaxTickGap \in Nat
  BY SettledIsSmall, StateMachineAssumption DEF Slot
<1>. HIDE DEF n
<1>2. MaxTickGap * n \in Nat /\ MaxTickGap * (i - 1) \in Nat /\ MaxTickGap * n <= MaxTickGap * (i - 1)
  BY <1>1, GapTimes
<1>3. now - since + MaxTickGap <= MaxTickGap * n
  BY DEF InTurn, n
<1>4. now \in Int /\ since \in Int
  BY DEF Time
<1>5. MaxTickGap * (i - 2) = MaxTickGap * (i - 1) - MaxTickGap
  <2>1. \A x, y \in Int : x * (y - 1) = x * y - x
    OBVIOUS
  <2>2. i - 2 = (i - 1) - 1 /\ i - 1 \in Int /\ MaxTickGap \in Int
    BY <1>1
  <2>. QED
    BY <2>1, <2>2
<1>. QED
  BY <1>1, <1>2, <1>3, <1>4, <1>5

-------------------------------------------------------------------------------
\* The observations of a ring are no later than the clock.
LEMMA ObservationsArePast ==
  ASSUME HistoryOK, NEW d \in DeviceState, StampsOK(d), d.valid, now \in Time
  PROVE  \A p \in DOMAIN d.recent_obs :
           d.recent_obs[p] \in Nat /\ d.recent_obs[p] <= d.last_seen_ms /\ d.recent_obs[p] <= now
<1>. SUFFICES ASSUME NEW p \in DOMAIN d.recent_obs
              PROVE  d.recent_obs[p] \in Nat /\ d.recent_obs[p] <= d.last_seen_ms /\ d.recent_obs[p] <= now
  OBVIOUS
<1>1. d.recent_obs[p] \in Time /\ d.last_seen_ms \in Time /\ d.recent_obs # << >>
  BY ElementOfSeq DEF DeviceState
<1>2. strong[d.mac] \in Int
  BY DEF StampsOK, HistoryOK, Time, Never
<1>3. d.recent_obs[p] <= strong[d.mac] /\ strong[d.mac] <= d.last_seen_ms /\ d.last_seen_ms <= now
  BY <1>1 DEF StampsOK
<1>. QED
  BY <1>1, <1>2, <1>3 DEF Time

\* A window is a finite set, and what is in it later is in it now.
LEMMA WindowIsFinite ==
  ASSUME NEW d \in DeviceState, NEW t
  PROVE  IsFiniteSet(InWindow(d, t)) /\ Cardinality(InWindow(d, t)) \in Nat
<1>1. Len(d.recent_obs) \in Nat /\ InWindow(d, t) \subseteq 1 .. Len(d.recent_obs)
  BY DEF InWindow, DeviceState
<1>2. IsFiniteSet(1 .. Len(d.recent_obs))
  BY <1>1, FS_Interval
<1>3. IsFiniteSet(InWindow(d, t))
  BY <1>1, <1>2, FS_Subset, Zenon
<1>. QED
  BY <1>3, FS_CardinalityType

LEMMA WindowsExpire ==
  ASSUME HistoryOK, NEW d \in DeviceState, StampsOK(d), d.valid, now \in Time,
         NEW t \in Nat, NEW u \in Nat, now <= t, t <= u
  PROVE  Cardinality(InWindow(d, u)) <= Cardinality(InWindow(d, t))
<1>1. \A p \in DOMAIN d.recent_obs : d.recent_obs[p] \in Nat /\ d.recent_obs[p] <= now
  BY ObservationsArePast
<1>2. d.dev_config.enter_window_ms \in Nat /\ now \in Nat
  BY ConfigAssumption DEF DeviceState, Time
<1>3. InWindow(d, u) \subseteq InWindow(d, t)
  <2>. SUFFICES ASSUME NEW p \in DOMAIN d.recent_obs,
                       Elapsed(u, d.recent_obs[p]) <= d.dev_config.enter_window_ms
                PROVE  Elapsed(t, d.recent_obs[p]) <= d.dev_config.enter_window_ms
    BY DEF InWindow
  <2>1. d.recent_obs[p] \in Nat /\ d.recent_obs[p] <= now
    BY <1>1
  <2>. QED
    BY <1>2, <2>1 DEF Elapsed
<1>. QED
  BY <1>3, WindowIsFinite, FS_Subset

\* A window that is not empty gives the age its observations have at most.
LEMMA WindowIsRecent ==
  ASSUME HistoryOK, NEW d \in DeviceState, StampsOK(d), d.valid, now \in Time,
         NEW t \in Nat, now <= t,
         Cardinality(InWindow(d, t)) >= d.dev_config.enter_min_count
  PROVE  /\ t - d.last_seen_ms <= d.dev_config.enter_window_ms
         /\ t - now <= d.dev_config.enter_window_ms
         /\ d.dev_config.enter_window_ms <= MaxWindow
<1>1. d.dev_config.enter_min_count \in Nat \ {0} /\ d.dev_config.enter_window_ms \in Nat
      /\ d.dev_config.enter_window_ms <= MaxWindow
  BY ConfigAssumption, ObservedAssumption DEF DeviceState
<1>2. InWindow(d, t) # {}
  <2>1. Cardinality({}) = 0
    BY FS_EmptySet
  <2>. QED
    BY <1>1, <2>1
<1>3. PICK p \in DOMAIN d.recent_obs : Elapsed(t, d.recent_obs[p]) <= d.dev_config.enter_window_ms
  BY <1>2 DEF InWindow
<1>4. d.recent_obs[p] \in Nat /\ d.recent_obs[p] <= d.last_seen_ms /\ d.recent_obs[p] <= now
  BY ObservationsArePast
<1>5. d.last_seen_ms \in Nat /\ now \in Nat
  BY DEF DeviceState, Time
<1>. QED
  BY <1>1, <1>3, <1>4, <1>5 DEF Elapsed

\* A new observation replaces at most one, and is in every window one of the others is in.
LEMMA PushKeepsWindow ==
  ASSUME HistoryOK, NEW d \in DeviceState, StampsOK(d), d.valid, now \in Time,
         NEW o \in DeviceState, o.recent_obs = Push(d.recent_obs, now),
         o.dev_config = d.dev_config,
         NEW t \in Nat, now <= t, t - now <= d.dev_config.enter_window_ms
  PROVE  Cardinality(InWindow(d, t)) <= Cardinality(InWindow(o, t))
<1>. DEFINE obs == d.recent_obs
<1>. DEFINE n == Len(obs)
<1>1. obs \in Seq(Time) /\ n \in Nat /\ DOMAIN obs = 1 .. n /\ now \in Nat
  BY DEF DeviceState, Time
<1>2. now \in Time /\ Elapsed(t, now) <= d.dev_config.enter_window_ms
  BY <1>1 DEF Elapsed
<1>3. CASE n < MaxRecentObs
  <2>1. o.recent_obs = Append(obs, now)
    BY <1>3 DEF Push
  <2>2. \A p \in 1 .. n : p \in DOMAIN o.recent_obs /\ o.recent_obs[p] = obs[p]
    BY <1>1, <2>1
  <2>3. InWindow(d, t) \subseteq InWindow(o, t)
    BY <1>1, <2>2 DEF InWindow
  <2>. QED
    BY <2>3, WindowIsFinite, FS_Subset
<1>4. CASE ~(n < MaxRecentObs)
  <2>1. o.recent_obs = Append(Tail(obs), now) /\ obs # << >> /\ n \in Nat \ {0}
    BY <1>1, <1>4, StateMachineAssumption DEF Push
  <2>2. Tail(obs) \in Seq(Time) /\ Len(Tail(obs)) = n - 1
        /\ \A p \in 1 .. (n - 1) : Tail(obs)[p] = obs[p + 1]
    BY <1>1, <2>1
  <2>3. /\ DOMAIN o.recent_obs = 1 .. n /\ o.recent_obs[n] = now
        /\ \A p \in 1 .. (n - 1) : o.recent_obs[p] = obs[p + 1]
    <3>1. Len(Append(Tail(obs), now)) = n /\ DOMAIN Append(Tail(obs), now) = 1 .. n
      BY <2>1, <2>2
    <3>2. Append(Tail(obs), now)[n] = now
      BY <2>1, <2>2
    <3>3. \A p \in 1 .. (n - 1) : Append(Tail(obs), now)[p] = Tail(obs)[p]
      BY <2>1, <2>2
    <3>. QED
      BY <2>1, <2>2, <3>1, <3>2, <3>3
  <2>. DEFINE f == [p \in InWindow(d, t) |-> IF p = 1 THEN n ELSE p - 1]
  <2>4. InWindow(d, t) \subseteq 1 .. n
    BY <1>1 DEF InWindow
  <2>5. ASSUME NEW p \in InWindow(d, t)
        PROVE  f[p] \in InWindow(o, t)
    <3>1. CASE p = 1
      <4>1. f[p] = n
        BY <3>1
      <4>2. n \in DOMAIN o.recent_obs
        BY <2>1, <2>3
      <4>3. Elapsed(t, o.recent_obs[n]) <= o.dev_config.enter_window_ms
        BY <1>2, <2>3
      <4>. QED
        BY <4>1, <4>2, <4>3 DEF InWindow
    <3>2. CASE p # 1
      <4>1. f[p] = p - 1
        BY <3>2
      <4>2. p - 1 \in 1 .. (n - 1) /\ p - 1 \in 1 .. n /\ (p - 1) + 1 = p
        BY <1>1, <2>4, <3>2
      <4>3. o.recent_obs[p - 1] = obs[p]
        BY <2>3, <4>2
      <4>4. Elapsed(t, obs[p]) <= d.dev_config.enter_window_ms
        BY DEF InWindow
      <4>. QED
        BY <2>3, <4>1, <4>2, <4>3, <4>4 DEF InWindow
    <3>. QED
      BY <3>1, <3>2
  <2>6. ASSUME NEW p \in InWindow(d, t), NEW q \in InWindow(d, t), f[p] = f[q]
        PROVE  p = q
    <3>1. p \in 1 .. n /\ q \in 1 .. n
      BY <2>4
    <3>2. f[p] = (IF p = 1 THEN n ELSE p - 1) /\ f[q] = (IF q = 1 THEN n ELSE q - 1)
      OBVIOUS
    <3>. QED
      BY <1>1, <2>6, <3>1, <3>2
  <2>. HIDE DEF f
  <2>7. f \in [InWindow(d, t) -> InWindow(o, t)]
    <3>1. f = [p \in InWindow(d, t) |-> f[p]]
      BY DEF f
    <3>. QED
      BY <2>5, <3>1
  <2>8. f \in Injection(InWindow(d, t), InWindow(o, t))
    BY <2>6, <2>7 DEF Injection, IsInjective
  <2>. QED
    BY <2>8, WindowIsFinite, FS_Injection
<1>. QED
  BY <1>3, <1>4

-------------------------------------------------------------------------------
\* A device in its turn still wants its Unlock at the next tick.
LEMMA InTurnWants ==
  ASSUME IInv, NEW i \in Slot, slots[i].valid, NEW since \in Time, InTurn(i, since),
         NEW t \in NextTimes
  PROVE  /\ WantsUnlock(slots[i], t)
         /\ t \in Nat /\ t <= since + MaxTickGap * (i - 1) /\ MaxTickGap * (i - 1) \in Nat
<1>. DEFINE d == slots[i]
<1>1. /\ d \in DeviceState /\ FlagsOK(d) /\ StampsOK(d) /\ HistoryOK /\ now \in Time
  BY DEF IInv, TypeOK, FlagsAgree, StampsAreSightings
<1>2. t \in Nat /\ now <= t /\ t <= now + MaxTickGap /\ now \in Nat /\ since \in Nat
  BY <1>1, StateMachineAssumption DEF NextTimes, Time
<1>3. now + MaxTickGap <= since + MaxTickGap * (i - 1) /\ MaxTickGap * (i - 1) \in Nat
  BY <1>1, WaitIsShort
<1>. DEFINE u == since + MaxTickGap * (i - 1)
<1>4. u \in Nat /\ t <= u
  BY <1>2, <1>3, StateMachineAssumption
<1>5. Cardinality(InWindow(d, u)) >= d.dev_config.enter_min_count
  BY DEF InTurn
<1>. HIDE DEF u
<1>6. Cardinality(InWindow(d, t)) >= d.dev_config.enter_min_count
  <2>1. Cardinality(InWindow(d, u)) <= Cardinality(InWindow(d, t))
    BY <1>1, <1>2, <1>4, WindowsExpire
  <2>2. d.dev_config.enter_min_count \in Nat
    BY <1>1, ConfigAssumption DEF DeviceState
  <2>. QED
    BY <1>1, <1>5, <2>1, <2>2, WindowIsFinite
<1>7. PresentAt(d, t)
  BY <1>6 DEF PresentAt, Enters
<1>8. /\ Evaluated(d, t).valid /\ Evaluated(d, t).detected
      /\ Evaluated(d, t).unlock_set = d.unlock_set
      /\ Evaluated(d, t).went_undetected = (d.went_undetected \/ TimedOut(d, t))
  BY <1>1, <1>7 DEF Evaluated, DeviceState
<1>9. ~d.unlock_set \/ d.went_undetected
  BY <1>1 DEF InTurn, FlagsOK
<1>. QED
  BY <1>2, <1>4, <1>3, <1>8, <1>9 DEF WantsUnlock, u

\* A settled slot wants no Unlock and is not timed out while the wait lasts.
LEMMA SettledWantNothing ==
  ASSUME TimeoutsOutlastWindows, IInv, NEW i \in Slot, NEW since \in Time,
         MaxTickGap * (i - 1) \in Nat, MaxTickGap * (i - 1) <= MaxWindow,
         NEW t \in Nat, now <= t, t <= since + MaxTickGap * (i - 1), NEW j \in Settled(i, since)
  PROVE  j \in Slot /\ ~TimedOut(slots[j], t) /\ ~WantsUnlock(slots[j], t)
<1>. DEFINE d == slots[j]
<1>1. j \in Slot /\ d.detected /\ d.unlock_set /\ since <= d.last_seen_ms + MaxWindow
  BY StateMachineAssumption DEF Settled, Slot
<1>2. d \in DeviceState /\ FlagsOK(d) /\ StampsOK(d) /\ now \in Nat
  BY <1>1 DEF IInv, TypeOK, FlagsAgree, StampsAreSightings, Time
<1>3. d.last_seen_ms \in Nat /\ d.last_seen_ms <= t /\ since \in Nat
  BY <1>2 DEF DeviceState, StampsOK, Time
<1>4. d.dev_config.presence_timeout_ms \in Nat /\ MinTimeout <= d.dev_config.presence_timeout_ms
  BY <1>2, ConfigAssumption, ObservedAssumption DEF DeviceState
<1>5. MaxWindow \in Nat /\ MinTimeout \in Nat /\ 2 * MaxWindow < MinTimeout
  BY ObservedAssumption DEF TimeoutsOutlastWindows
<1>6. t - d.last_seen_ms < d.dev_config.presence_timeout_ms
  BY <1>1, <1>3, <1>4, <1>5
<1>7. ~TimedOut(d, t)
  BY <1>3, <1>4, <1>6 DEF TimedOut, Elapsed
<1>8. /\ Evaluated(d, t).unlock_set = d.unlock_set
      /\ Evaluated(d, t).valid => Evaluated(d, t).went_undetected = (d.went_undetected \/ TimedOut(d, t))
  <2>1. CASE d.valid
    BY <1>2, <2>1 DEF Evaluated, DeviceState
  <2>2. CASE ~d.valid
    BY <2>2 DEF Evaluated
  <2>. QED
    BY <2>1, <2>2
<1>9. ~d.went_undetected
  BY <1>1, <1>2 DEF FlagsOK
<1>. QED
  BY <1>1, <1>7, <1>8, <1>9 DEF WantsUnlock

\* A call between two ticks leaves a device in its turn.
LEMMA CallKeepsInTurn ==
  ASSUME TypeOK, TypeOK', now' = now, NEW i \in Slot, NEW since \in Time, InTurn(i, since),
         slots'[i].detected = slots[i].detected, slots'[i].unlock_set = slots[i].unlock_set,
         slots'[i].dev_config = slots[i].dev_config,
         Cardinality(InWindow(slots'[i], since + MaxTickGap * (i - 1)))
           >= slots[i].dev_config.enter_min_count,
         \A j \in 1 .. (i - 1) :
           /\ slots'[j].detected = slots[j].detected /\ slots'[j].unlock_set = slots[j].unlock_set
           /\ slots[j].last_seen_ms <= slots'[j].last_seen_ms
  PROVE  InTurn(i, since)'
<1>1. \A j \in 1 .. (i - 1) : j \in Slot
  BY StateMachineAssumption DEF Slot
<1>2. \A j \in 1 .. (i - 1) : slots[j].last_seen_ms \in Int /\ slots'[j].last_seen_ms \in Int
  BY <1>1 DEF TypeOK, DeviceState, Time
<1>3. since \in Int /\ MaxWindow \in Int /\ now \in Int /\ MaxTickGap \in Int
  BY ObservedAssumption, StateMachineAssumption DEF Time, TypeOK
<1>4. Settled(i, since) \subseteq Settled(i, since)'
  <2>. SUFFICES ASSUME NEW j \in Settled(i, since)
                PROVE  j \in Settled(i, since)'
    OBVIOUS
  <2>1. j \in 1 .. (i - 1) /\ slots[j].detected /\ slots[j].unlock_set
        /\ since <= slots[j].last_seen_ms + MaxWindow
    BY DEF Settled
  <2>2. since <= slots'[j].last_seen_ms + MaxWindow
    BY <1>2, <1>3, <2>1
  <2>. QED
    BY <2>1, <2>2 DEF Settled
<1>. DEFINE n == Cardinality(Settled(i, since))
<1>. DEFINE k == Cardinality(Settled(i, since)')
<1>5. n \in Nat /\ k \in Nat /\ n <= k
  BY <1>4, MoreSettled
<1>6. now - since + MaxTickGap <= MaxTickGap * n
  BY DEF InTurn
<1>. HIDE DEF n, k
<1>7. MaxTickGap * n \in Nat /\ MaxTickGap * k \in Nat /\ MaxTickGap * n <= MaxTickGap * k
  BY <1>5, GapTimes
<1>8. now - since + MaxTickGap <= MaxTickGap * k
  BY <1>3, <1>6, <1>7
<1>9. \A j \in 1 .. (i - 1) : ~Repeats(slots'[j])
  BY DEF InTurn, Repeats
<1>. QED
  BY <1>8, <1>9 DEF InTurn, k

\* OwedInTurn after a step, from what the step does to each slot and stamp.
LEMMA OwedAfter ==
  ASSUME \A i \in Slot : slots'[i].valid /\ owed'[slots'[i].mac] # Never =>
                          owed'[slots'[i].mac] \in Time,
         ASSUME NEW i \in Slot, NEW since \in Time, slots'[i].valid,
                owed'[slots'[i].mac] = since
         PROVE  InTurn(i, since)'
  PROVE  OwedInTurn'
<1>. SUFFICES ASSUME NEW i \in Slot, slots'[i].valid, owed'[slots'[i].mac] # Never
              PROVE  InTurn(i, owed[slots[i].mac])'
  BY DEF OwedInTurn
<1>1. PICK since \in Time : since = owed'[slots'[i].mac]
  OBVIOUS
<1>2. InTurn(i, since)'
  BY <1>1
<1>. QED
  BY <1>1, <1>2 DEF InTurn, Settled

LEMMA FeedKeepsTurns ==
  ASSUME IInv, TypeOK', TurnsInv, NEW m \in Mac, NEW rssi \in Rssi, ObservedFeed(m, rssi)
  PROVE  TurnsInv'
<1>1. /\ now' = now /\ action' = action /\ owed' = owed /\ TypeOK /\ now \in Time
      /\ FlagsAgree /\ HistoryOK
  BY DEF ObservedFeed, Feed, IInv, TypeOK
<1>2. NobodyOwedWhenQuiet'
  BY <1>1 DEF NobodyOwedWhenQuiet, TurnsInv
<1>3. CASE UNCHANGED slots
  <2>1. OwedInTurn'
    BY <1>1, <1>3 DEF OwedInTurn, TurnsInv, InTurn, Settled
  <2>2. OwedHaveSlots'
    BY <1>1, <1>3 DEF OwedHaveSlots, TurnsInv, Holds
  <2>. QED
    BY <1>2, <2>1, <2>2 DEF TurnsInv
<1>4. ASSUME NEW k \in Slot, IsSlotFor(k, m),
             slots' = [slots EXCEPT ![k] = Observed(FoundOrCreated(k, m), rssi, now)]
      PROVE  TurnsInv'
  <2>. DEFINE d == FoundOrCreated(k, m)
  <2>. DEFINE o == Observed(d, rssi, now)
  <2>1. d \in DeviceState /\ d.detected = slots[k].detected /\ d.last_seen_ms = slots[k].last_seen_ms
        /\ d.unlock_set = slots[k].unlock_set
    <3>1. d \in DeviceState
      BY <1>1, FoundOrCreatedType
    <3>2. ~slots[k].valid => slots[k] = EmptySlot
      BY <1>1 DEF FlagsAgree, FlagsOK
    <3>. QED
      BY <3>1, <3>2 DEF FoundOrCreated, EmptySlot
  <2>2. slots'[k] = o /\ \A i \in Slot : i # k => slots'[i] = slots[i]
    BY <1>1, <1>4 DEF TypeOK
  <2>3. d.last_seen_ms <= now /\ d.last_seen_ms \in Int /\ now \in Int
    BY <1>1, <2>1 DEF IInv, StampsAreSightings, StampsOK, DeviceState, Time
  <2>4. o \in DeviceState
    BY <1>1, <2>1, ObservedType
  <2>5. d.valid /\ d.mac = m
    BY <1>4 DEF FoundOrCreated, IsSlotFor, Holds, EmptySlot
  <2>. HIDE DEF d
  <2>6. /\ o.valid = d.valid /\ o.mac = d.mac /\ o.detected = d.detected
        /\ o.unlock_set = d.unlock_set /\ o.dev_config = d.dev_config
        /\ o.last_seen_ms \in {d.last_seen_ms, now}
        /\ o.recent_obs = d.recent_obs \/ (~d.detected /\ o.recent_obs = Push(d.recent_obs, now))
    BY <2>1 DEF Observed, DeviceState
  <2>. HIDE DEF o
  <2>7. \A j \in Slot :
          /\ slots'[j].detected = slots[j].detected /\ slots'[j].unlock_set = slots[j].unlock_set
          /\ slots[j].last_seen_ms <= slots'[j].last_seen_ms
    <3>1. slots[k].last_seen_ms <= slots'[k].last_seen_ms
      BY <2>1, <2>2, <2>3, <2>6
    <3>2. \A j \in Slot : slots[j].last_seen_ms \in Int
      BY <1>1 DEF TypeOK, DeviceState, Time
    <3>. QED
      BY <2>1, <2>2, <2>6, <3>1, <3>2
  <2>8. \A i \in Slot : \A j \in 1 .. (i - 1) : j \in Slot
    BY StateMachineAssumption DEF Slot
  <2>9. owed[m] # Never => d = slots[k] /\ slots[k].valid /\ slots[k].mac = m
    <3>. SUFFICES ASSUME owed[m] # Never
                  PROVE  Holds(k, m)
      BY DEF d, FoundOrCreated, Holds
    <3>1. PICK i \in Slot : Holds(i, m)
      BY DEF TurnsInv, OwedHaveSlots
    <3>. QED
      BY <1>4, <3>1 DEF IsSlotFor
  <2>10. OwedHaveSlots'
    <3>. SUFFICES ASSUME NEW x \in Mac, owed[x] # Never
                  PROVE  \E i \in Slot : Holds(i, x)'
      BY <1>1 DEF OwedHaveSlots
    <3>1. PICK i \in Slot : Holds(i, x)
      BY DEF TurnsInv, OwedHaveSlots
    <3>2. CASE i # k
      BY <2>2, <3>1, <3>2 DEF Holds
    <3>3. CASE i = k
      <4>1. slots[k].valid /\ slots[k].mac = x
        BY <3>1, <3>3 DEF Holds
      <4>2. d = slots[k]
        BY <4>1 DEF d, FoundOrCreated
      <4>. QED
        BY <2>2, <2>6, <4>1, <4>2 DEF Holds
    <3>. QED
      BY <3>2, <3>3
  <2>11. ASSUME NEW i \in Slot, NEW since \in Time, slots'[i].valid,
                owed[slots'[i].mac] = since
         PROVE  InTurn(i, since)'
    <3>0. owed[slots'[i].mac] # Never
      BY <2>11 DEF Time, Never
    <3>1. slots[i].valid /\ slots'[i].mac = slots[i].mac
      BY <2>2, <2>5, <2>6, <2>9, <2>11, <3>0
    <3>2. InTurn(i, since)
      <4>1. InTurn(i, owed[slots[i].mac])
        BY <3>0, <3>1, <2>11 DEF TurnsInv, OwedInTurn
      <4>. QED
        BY <2>11, <3>1, <4>1
    <3>3. StampsOK(slots[i]) /\ slots[i] \in DeviceState
      BY <1>1 DEF IInv, StampsAreSightings, TypeOK
    <3>. DEFINE u == since + MaxTickGap * (i - 1)
    <3>5. u \in Nat /\ now <= u
      <4>1. now + MaxTickGap <= u /\ MaxTickGap * (i - 1) \in Nat
        BY <1>1, <3>2, WaitIsShort
      <4>. QED
        BY <1>1, <4>1, StateMachineAssumption DEF Time
    <3>6. slots'[i].dev_config = slots[i].dev_config
      BY <2>2, <2>5, <2>6, <2>9, <2>11, <3>0
    <3>7. Cardinality(InWindow(slots[i], u)) >= slots[i].dev_config.enter_min_count
      BY <3>2 DEF InTurn
    <3>. HIDE DEF u
    <3>8. Cardinality(InWindow(slots'[i], u)) >= slots[i].dev_config.enter_min_count
      <4>1. CASE slots'[i].recent_obs = slots[i].recent_obs
        <5>1. InWindow(slots'[i], u) = InWindow(slots[i], u)
          BY <3>6, <4>1 DEF InWindow
        <5>. QED
          BY <3>7, <5>1
      <4>2. CASE slots'[i].recent_obs = Push(slots[i].recent_obs, now)
        <5>1. u - now <= slots[i].dev_config.enter_window_ms
          BY <1>1, <3>1, <3>3, <3>5, <3>7, WindowIsRecent
        <5>2. slots'[i] \in DeviceState
          BY DEF TypeOK
        <5>3. Cardinality(InWindow(slots[i], u)) <= Cardinality(InWindow(slots'[i], u))
          BY <1>1, <3>1, <3>3, <3>5, <3>6, <4>2, <5>1, <5>2, PushKeepsWindow
        <5>4. Cardinality(InWindow(slots[i], u)) \in Nat /\ Cardinality(InWindow(slots'[i], u)) \in Nat
          BY <3>3, <5>2, WindowIsFinite
        <5>5. slots[i].dev_config.enter_min_count \in Nat
          BY <3>3, ConfigAssumption DEF DeviceState
        <5>. QED
          BY <3>7, <5>3, <5>4, <5>5
      <4>3. CASE i # k
        BY <2>2, <4>1, <4>3
      <4>4. CASE i = k
        BY <2>2, <2>6, <2>9, <2>11, <3>0, <3>1, <4>1, <4>2, <4>4, <2>5
      <4>. QED
        BY <4>3, <4>4
    <3>9. /\ slots'[i].detected = slots[i].detected /\ slots'[i].unlock_set = slots[i].unlock_set
          /\ \A j \in 1 .. (i - 1) :
               /\ slots'[j].detected = slots[j].detected /\ slots'[j].unlock_set = slots[j].unlock_set
               /\ slots[j].last_seen_ms <= slots'[j].last_seen_ms
      BY <2>7, <2>8
    <3>10. Cardinality(InWindow(slots'[i], since + MaxTickGap * (i - 1)))
             >= slots[i].dev_config.enter_min_count
      BY <3>8 DEF u
    <3>. QED
      BY <1>1, <3>2, <3>6, <3>9, <3>10, CallKeepsInTurn
  <2>12. \A i \in Slot : slots'[i].valid /\ owed'[slots'[i].mac] # Never =>
                          owed'[slots'[i].mac] \in Time
    <3>1. \A i \in Slot : slots'[i].valid => slots'[i].mac \in Mac
      BY <1>1, <2>2, <2>5, <2>6 DEF IInv, StampsAreSightings, StampsOK
    <3>. QED
      BY <1>1, <3>1 DEF HistoryOK
  <2>13. OwedInTurn'
    BY <1>1, <2>11, <2>12, OwedAfter
  <2>. QED
    BY <1>2, <2>10, <2>13 DEF TurnsInv
<1>. QED
  BY <1>3, <1>4 DEF ObservedFeed, Feed

LEMMA UpdateKeepsTurns ==
  ASSUME IInv, TypeOK', TurnsInv, NEW m \in Mac, NEW cfg \in Config, ObservedUpdate(m, cfg)
  PROVE  TurnsInv'
<1>1. /\ now' = now /\ action' = action /\ TypeOK /\ now \in Time /\ FlagsAgree /\ HistoryOK
      /\ owed' = IF slots' = slots THEN owed ELSE [owed EXCEPT ![m] = Never]
  BY DEF ObservedUpdate, UpdateDeviceConfig, IInv, TypeOK
<1>2. \A x \in Mac : owed'[x] # Never => owed'[x] = owed[x] /\ (x # m \/ slots' = slots)
  BY <1>1 DEF HistoryOK
<1>3. NobodyOwedWhenQuiet'
  BY <1>1, <1>2 DEF NobodyOwedWhenQuiet, TurnsInv
<1>4. CASE UNCHANGED slots
  <2>1. owed' = owed
    BY <1>1, <1>4
  <2>2. OwedInTurn'
    BY <1>1, <1>4, <2>1 DEF OwedInTurn, TurnsInv, InTurn, Settled
  <2>3. OwedHaveSlots'
    BY <1>1, <1>4, <2>1 DEF OwedHaveSlots, TurnsInv, Holds
  <2>. QED
    BY <1>3, <2>2, <2>3 DEF TurnsInv
<1>5. ASSUME NEW k \in Slot, IsSlotFor(k, m), slots' # slots,
             slots' = [slots EXCEPT ![k] = [FoundOrCreated(k, m) EXCEPT !.dev_config = cfg]]
      PROVE  TurnsInv'
  <2>. DEFINE o == [FoundOrCreated(k, m) EXCEPT !.dev_config = cfg]
  <2>1. FoundOrCreated(k, m) \in DeviceState
    BY <1>1, FoundOrCreatedType
  <2>2. slots'[k] = o /\ \A i \in Slot : i # k => slots'[i] = slots[i]
    BY <1>1, <1>5 DEF TypeOK
  <2>3. ~slots[k].valid => slots[k] = EmptySlot
    BY <1>1 DEF FlagsAgree, FlagsOK
  <2>4. /\ o.detected = slots[k].detected /\ o.unlock_set = slots[k].unlock_set
        /\ o.last_seen_ms = slots[k].last_seen_ms /\ o.mac = m
    BY <1>5, <2>1, <2>3 DEF FoundOrCreated, EmptySlot, IsSlotFor, Holds, DeviceState
  <2>. HIDE DEF o
  <2>5. \A j \in Slot : slots[j].last_seen_ms \in Int
    BY <1>1 DEF TypeOK, DeviceState, Time
  <2>6. \A j \in Slot :
          /\ slots'[j].detected = slots[j].detected /\ slots'[j].unlock_set = slots[j].unlock_set
          /\ slots[j].last_seen_ms <= slots'[j].last_seen_ms
    BY <2>2, <2>4, <2>5
  <2>7. OwedHaveSlots'
    <3>. SUFFICES ASSUME NEW x \in Mac, owed'[x] # Never
                  PROVE  \E i \in Slot : Holds(i, x)'
      BY DEF OwedHaveSlots
    <3>1. x # m /\ owed[x] # Never
      BY <1>2, <1>5
    <3>2. PICK i \in Slot : Holds(i, x)
      BY <3>1 DEF TurnsInv, OwedHaveSlots
    <3>3. i # k
      BY <1>5, <3>1, <3>2 DEF IsSlotFor, Holds
    <3>. QED
      BY <2>2, <3>2, <3>3 DEF Holds
  <2>8. \A i \in Slot : slots'[i].valid => slots'[i].mac \in Mac
    BY <1>1, <2>2, <2>4 DEF IInv, StampsAreSightings, StampsOK
  <2>9. ASSUME NEW i \in Slot, NEW since \in Time, slots'[i].valid,
               owed'[slots'[i].mac] = since
        PROVE  InTurn(i, since)'
    <3>1. owed'[slots'[i].mac] # Never /\ slots'[i].mac \in Mac
      BY <2>8, <2>9 DEF Time, Never
    <3>2. slots'[i].mac # m /\ owed[slots'[i].mac] = since
      BY <1>2, <1>5, <2>9, <3>1
    <3>3. i # k
      BY <2>2, <2>4, <3>2
    <3>4. slots'[i] = slots[i]
      BY <2>2, <3>3
    <3>5. slots[i].valid /\ owed[slots[i].mac] = since /\ owed[slots[i].mac] # Never
      BY <2>9, <3>1, <3>2, <3>4 DEF Time, Never
    <3>6. InTurn(i, since)
      BY <3>5 DEF TurnsInv, OwedInTurn
    <3>7. Cardinality(InWindow(slots'[i], since + MaxTickGap * (i - 1)))
            >= slots[i].dev_config.enter_min_count
      BY <3>4, <3>6 DEF InTurn
    <3>8. \A j \in 1 .. (i - 1) : j \in Slot
      BY StateMachineAssumption DEF Slot
    <3>9. \A j \in 1 .. (i - 1) :
            /\ slots'[j].detected = slots[j].detected /\ slots'[j].unlock_set = slots[j].unlock_set
            /\ slots[j].last_seen_ms <= slots'[j].last_seen_ms
      BY <2>6, <3>8
    <3>. QED
      BY <1>1, <3>4, <3>6, <3>7, <3>9, CallKeepsInTurn
  <2>10. \A i \in Slot : slots'[i].valid /\ owed'[slots'[i].mac] # Never =>
                          owed'[slots'[i].mac] \in Time
    BY <1>1, <1>2, <2>8 DEF HistoryOK
  <2>11. OwedInTurn'
    BY <2>9, <2>10, OwedAfter
  <2>. QED
    BY <1>3, <2>7, <2>11 DEF TurnsInv
<1>. QED
  BY <1>4, <1>5 DEF ObservedUpdate, UpdateDeviceConfig

LEMMA RemoveKeepsTurns ==
  ASSUME IInv, TypeOK', TurnsInv, NEW m \in Mac, ObservedRemove(m)
  PROVE  TurnsInv'
<1>1. /\ now' = now /\ action' = action /\ TypeOK /\ now \in Time /\ HistoryOK
      /\ slots' = [i \in Slot |-> IF Holds(i, m) THEN EmptySlot ELSE slots[i]]
      /\ owed' = [x \in Mac |-> IF \E i, j \in Slot : Holds(i, m) /\ Holds(j, x) /\ i <= j
                                THEN Never ELSE owed[x]]
  BY DEF ObservedRemove, RemoveDevice, IInv, TypeOK
<1>2. ASSUME NEW x \in Mac, owed'[x] # Never
      PROVE  /\ owed'[x] = owed[x]
             /\ \A i, j \in Slot : Holds(i, m) /\ Holds(j, x) => ~(i <= j)
  BY <1>1, <1>2
<1>3. NobodyOwedWhenQuiet'
  BY <1>1, <1>2 DEF NobodyOwedWhenQuiet, TurnsInv
<1>4. OwedHaveSlots'
  <2>. SUFFICES ASSUME NEW x \in Mac, owed'[x] # Never
                PROVE  \E i \in Slot : Holds(i, x)'
    BY DEF OwedHaveSlots
  <2>1. PICK i \in Slot : Holds(i, x)
    BY <1>2 DEF TurnsInv, OwedHaveSlots
  <2>2. i <= i
    BY DEF Slot
  <2>3. ~Holds(i, m)
    BY <1>2, <2>1, <2>2
  <2>4. slots'[i] = slots[i]
    BY <1>1, <2>3
  <2>. QED
    BY <2>1, <2>4 DEF Holds
<1>5. \A i \in Slot : slots'[i].valid => /\ slots'[i] = slots[i] /\ ~Holds(i, m)
                                         /\ slots'[i].mac \in Mac
  <2>1. \A i \in Slot : slots[i].valid => slots[i].mac \in Mac
    BY DEF IInv, StampsAreSightings, StampsOK
  <2>2. ~EmptySlot.valid
    BY DEF EmptySlot
  <2>. QED
    BY <1>1, <2>1, <2>2
<1>6. ASSUME NEW i \in Slot, NEW since \in Time, slots'[i].valid,
             owed'[slots'[i].mac] = since
      PROVE  InTurn(i, since)'
  <2>1. owed'[slots'[i].mac] # Never /\ slots'[i] = slots[i] /\ slots[i].valid /\ slots[i].mac \in Mac
    BY <1>5, <1>6 DEF Time, Never
  <2>. DEFINE x == slots[i].mac
  <2>2. owed[x] = since /\ owed[x] # Never
    BY <1>2, <1>6, <2>1 DEF Time, Never
  <2>3. InTurn(i, since)
    BY <2>1, <2>2 DEF TurnsInv, OwedInTurn
  <2>4. Holds(i, x)
    BY <2>1 DEF Holds
  <2>5. \A j \in 1 .. (i - 1) : j \in Slot /\ j <= i
    BY StateMachineAssumption DEF Slot
  <2>6. \A j \in 1 .. (i - 1) : ~Holds(j, m)
    BY <1>2, <2>1, <2>4, <2>5
  <2>7. \A j \in 1 .. (i - 1) : slots'[j] = slots[j]
    BY <1>1, <2>5, <2>6
  <2>8. \A j \in Slot : slots[j].last_seen_ms \in Int
    BY <1>1 DEF TypeOK, DeviceState, Time
  <2>9. \A j \in 1 .. (i - 1) :
          /\ slots'[j].detected = slots[j].detected /\ slots'[j].unlock_set = slots[j].unlock_set
          /\ slots[j].last_seen_ms <= slots'[j].last_seen_ms
    BY <2>5, <2>7, <2>8
  <2>10. Cardinality(InWindow(slots'[i], since + MaxTickGap * (i - 1)))
           >= slots[i].dev_config.enter_min_count
    BY <2>1, <2>3 DEF InTurn
  <2>. QED
    BY <1>1, <2>1, <2>3, <2>9, <2>10, CallKeepsInTurn
<1>7. \A i \in Slot : slots'[i].valid /\ owed'[slots'[i].mac] # Never =>
                       owed'[slots'[i].mac] \in Time
  BY <1>1, <1>2, <1>5 DEF HistoryOK
<1>8. OwedInTurn'
  BY <1>6, <1>7, OwedAfter
<1>. QED
  BY <1>3, <1>4, <1>8 DEF TurnsInv

-------------------------------------------------------------------------------
\* Whoever is owed after a tick wanted an Unlock that the tick did not give.
LEMMA OwedWereWanting ==
  ASSUME IInv, TurnsInv, NEW t \in NextTimes, ObservedTick(t), NEW x \in Mac, owed'[x] # Never
  PROVE  \E i \in Slot :
           /\ Holds(i, x) /\ WantsUnlock(slots[i], t) /\ ~UnlocksFor(i, t)
           /\ \/ owed[x] # Never /\ owed'[x] = owed[x] /\ InTurn(i, owed[x])
              \/ owed'[x] = t /\ EntitledAt(i, t)
<1>1. /\ x \notin Served(t)
      /\ owed'[x] = IF owed[x] = Never /\ x \in Entitled(t) THEN t ELSE owed[x]
  BY DEF ObservedTick, Never
<1>2. \A i \in Slot : Holds(i, x) => ~UnlocksFor(i, t)
  BY <1>1 DEF Served, Holds
<1>3. CASE owed[x] # Never
  <2>1. PICK i \in Slot : Holds(i, x)
    BY <1>3 DEF TurnsInv, OwedHaveSlots
  <2>2. slots[i].valid /\ InTurn(i, owed[x]) /\ owed[x] \in Time
    BY <1>3, <2>1 DEF Holds, TurnsInv, OwedInTurn, IInv, HistoryOK
  <2>3. WantsUnlock(slots[i], t)
    BY <2>2, InTurnWants
  <2>. QED
    BY <1>1, <1>2, <1>3, <2>1, <2>2, <2>3
<1>4. CASE owed[x] = Never
  <2>1. PICK i \in Slot : EntitledAt(i, t) /\ slots[i].mac = x
    BY <1>1, <1>4 DEF Entitled
  <2>2. WantsUnlock(slots[i], t) /\ slots[i].valid
    BY <2>1 DEF EntitledAt, WantsUnlock, Evaluated
  <2>3. x \in Entitled(t)
    BY <2>1 DEF Entitled
  <2>. QED
    BY <1>1, <1>2, <1>4, <2>1, <2>2, <2>3 DEF Holds
<1>. QED
  BY <1>3, <1>4

\* The wait of slot i goes on when a tick unlocks for slot k before it: k is settled by
\* that, and those settled already stay so.
LEMMA TickSettlesOne ==
  ASSUME TimeoutsOutlastWindows, IInv, NEW t \in NextTimes, Tick(t),
         NEW k \in Slot, WantsUnlock(slots[k], t),
         \A j \in 1 .. (k - 1) : ~WantsUnlock(slots[j], t),
         slots' = [n \in Slot |->
             IF n < k THEN Evaluated(slots[n], t)
             ELSE IF n = k THEN [Evaluated(slots[k], t) EXCEPT
                                   !.unlock_set = (t # 0), !.went_undetected = FALSE]
             ELSE slots[n]],
         NEW i \in Slot, k < i, NEW since \in Time, since # 0, since <= t,
         MaxTickGap * (i - 1) \in Nat, MaxTickGap * (i - 1) <= MaxWindow,
         t <= since + MaxTickGap * (i - 1),
         ~(slots[i].detected /\ slots[i].unlock_set),
         Cardinality(InWindow(slots[i], since + MaxTickGap * (i - 1)))
           >= slots[i].dev_config.enter_min_count,
         \A j \in 1 .. (i - 1) : ~Repeats(slots[j]),
         NEW S, S \subseteq Settled(i, since), k \notin S,
         t - since <= MaxTickGap * Cardinality(S)
  PROVE  InTurn(i, since)'
<1>1. /\ t \in Time /\ now \in Time /\ now <= t /\ now' = t
      /\ \A j \in Slot : slots[j] \in DeviceState /\ FlagsOK(slots[j]) /\ StampsOK(slots[j])
  BY TickOnSlots
<1>2. /\ t \in Nat /\ since \in Nat /\ MaxWindow \in Nat /\ MaxTickGap \in Nat
  BY <1>1, StateMachineAssumption, ObservedAssumption DEF Time
<1>3. /\ \A j \in 1 .. (i - 1) : j \in Slot
      /\ k \in 1 .. (i - 1) /\ ~(k < k)
      /\ \A j \in Slot : j < k => j \in 1 .. (k - 1)
      /\ \A j \in Slot : j # k /\ ~(j < k) => k < j
      /\ \A j \in Slot : k < j => j # k /\ ~(j < k)
  BY StateMachineAssumption DEF Slot
<1>4. \A j \in Slot : j < k => slots'[j] = Evaluated(slots[j], t) /\ ~WantsUnlock(slots[j], t)
  BY <1>3
<1>5. \A j \in Slot : k < j => slots'[j] = slots[j]
  BY <1>3
<1>6. slots'[k] = [Evaluated(slots[k], t) EXCEPT !.unlock_set = (t # 0), !.went_undetected = FALSE]
  BY <1>3
<1>7. /\ slots'[k].detected /\ slots'[k].unlock_set
      /\ since <= slots'[k].last_seen_ms + MaxWindow
  <2>1. /\ Evaluated(slots[k], t).detected /\ slots[k].valid
        /\ Enters(slots[k], t) \/ (Repeats(slots[k]) /\ ~TimedOut(slots[k], t))
    BY <1>1, UnlockIsArrival
  <2>2. Enters(slots[k], t)
    BY <1>3, <2>1
  <2>3. /\ slots[k].last_seen_ms \in Nat
        /\ t - slots[k].last_seen_ms <= slots[k].dev_config.enter_window_ms
    BY <1>1, <2>1, <2>2, EntryHasEvidence
  <2>4. slots[k].dev_config.enter_window_ms \in Nat
        /\ slots[k].dev_config.enter_window_ms <= MaxWindow
    BY <1>1, ConfigAssumption, ObservedAssumption DEF DeviceState
  <2>5. Evaluated(slots[k], t) \in DeviceState
    BY <1>1, EvaluatedType
  <2>6. Evaluated(slots[k], t).last_seen_ms = slots[k].last_seen_ms
    BY <1>1, <2>1 DEF Evaluated, DeviceState
  <2>7. /\ slots'[k].detected = Evaluated(slots[k], t).detected
        /\ slots'[k].unlock_set = (t # 0)
        /\ slots'[k].last_seen_ms = Evaluated(slots[k], t).last_seen_ms
    BY <1>6, <2>5 DEF DeviceState
  <2>8. t # 0
    BY <1>2
  <2>9. since <= slots[k].last_seen_ms + MaxWindow
    BY <1>2, <2>3, <2>4
  <2>. QED
    BY <2>1, <2>6, <2>7, <2>8, <2>9
<1>8. ASSUME NEW j \in S
      PROVE  j \in Settled(i, since)'
  <2>1. /\ j \in 1 .. (i - 1) /\ j \in Slot /\ slots[j].detected /\ slots[j].unlock_set
        /\ since <= slots[j].last_seen_ms + MaxWindow /\ j # k
    BY <1>3 DEF Settled
  <2>2. ~TimedOut(slots[j], t)
    BY <1>1, <1>2, SettledWantNothing
  <2>3. CASE j < k
    <3>1. /\ Evaluated(slots[j], t).last_seen_ms = slots[j].last_seen_ms
          /\ Evaluated(slots[j], t).unlock_set = slots[j].unlock_set
          /\ Evaluated(slots[j], t).detected
      BY <1>1, <1>4, <2>1, <2>2, <2>3, EvaluationKeepsSlot
    <3>. QED
      BY <1>4, <2>1, <2>3, <3>1 DEF Settled
  <2>4. CASE k < j
    BY <1>5, <2>1, <2>4 DEF Settled
  <2>. QED
    BY <1>3, <2>1, <2>3, <2>4
<1>9. k \in Settled(i, since)'
  BY <1>3, <1>7 DEF Settled
<1>10. S \cup {k} \subseteq Settled(i, since)'
  BY <1>8, <1>9
<1>. DEFINE n == Cardinality(S)
<1>. DEFINE p == Cardinality(Settled(i, since)')
<1>11. n \in Nat /\ n + 1 \in Nat /\ p \in Nat /\ n + 1 <= p
  <2>1. IsFiniteSet(S)
    BY SettledIsSmall, FS_Subset
  <2>2. n \in Nat /\ Cardinality(S \cup {k}) = n + 1
    BY <2>1, FS_CardinalityType, FS_AddElement
  <2>3. Cardinality(S \cup {k}) <= p /\ p \in Nat
    BY <1>10, MoreSettled
  <2>. QED
    BY <2>2, <2>3
<1>12. t - since <= MaxTickGap * n
  OBVIOUS
<1>. HIDE DEF n, p
<1>13. /\ MaxTickGap * n \in Nat /\ MaxTickGap * (n + 1) = MaxTickGap * n + MaxTickGap
       /\ MaxTickGap * p \in Nat /\ MaxTickGap * (n + 1) <= MaxTickGap * p
  <2>1. MaxTickGap * n \in Nat /\ MaxTickGap * (n + 1) = MaxTickGap * n + MaxTickGap
    <3>1. n <= n
      BY <1>11
    <3>. QED
      BY <1>11, <3>1, GapTimes
  <2>2. MaxTickGap * p \in Nat /\ MaxTickGap * (n + 1) <= MaxTickGap * p
    BY <1>11, GapTimes
  <2>. QED
    BY <2>1, <2>2
<1>14. t - since + MaxTickGap <= MaxTickGap * p
  BY <1>2, <1>12, <1>13
<1>15. ASSUME NEW j \in 1 .. (i - 1)
       PROVE  ~Repeats(slots'[j])
  <2>1. j \in Slot /\ ~Repeats(slots[j])
    BY <1>3
  <2>2. CASE j < k
    BY <1>1, <1>4, <2>1, <2>2, EvaluationKeepsSlot
  <2>3. CASE j = k
    BY <1>7, <2>3 DEF Repeats
  <2>4. CASE k < j
    BY <1>5, <2>1, <2>4
  <2>. QED
    BY <1>3, <2>1, <2>2, <2>3, <2>4
<1>16. slots'[i] = slots[i]
  BY <1>5
<1>. QED
  BY <1>1, <1>14, <1>15, <1>16 DEF InTurn, p

\* A device that a tick newly passes over is not one that is detected, and has the slots
\* before its own to wait for.
LEMMA EntitledStart ==
  ASSUME TimeoutsOutlastWindows, IInv, NEW t \in NextTimes, Tick(t),
         NEW i \in Slot, slots[i].valid, EntitledAt(i, t)
  PROVE  /\ MaxTickGap * (i - 1) \in Nat /\ MaxTickGap * (i - 1) <= MaxWindow
         /\ ~(slots[i].detected /\ slots[i].unlock_set)
<1>. DEFINE d == slots[i]
<1>. DEFINE u == t + MaxTickGap * (i - 1)
<1>1. /\ t \in Time /\ now \in Time /\ now <= t
      /\ d \in DeviceState /\ FlagsOK(d) /\ StampsOK(d) /\ HistoryOK
  BY TickOnSlots DEF IInv
<1>2. t \in Nat /\ now \in Nat
  BY <1>1 DEF Time
<1>3. MaxTickGap * (i - 1) \in Nat
  <2>1. i - 1 \in Nat /\ i - 1 <= i - 1
    BY StateMachineAssumption DEF Slot
  <2>. QED
    BY <2>1, GapTimes
<1>4. u \in Nat /\ now <= u
  BY <1>1, <1>2, <1>3
<1>5. Cardinality(InWindow(d, u)) >= d.dev_config.enter_min_count
  BY DEF EntitledAt
<1>. HIDE DEF u
<1>6. /\ u - d.last_seen_ms <= d.dev_config.enter_window_ms
      /\ u - now <= d.dev_config.enter_window_ms
      /\ d.dev_config.enter_window_ms <= MaxWindow
  BY <1>1, <1>4, <1>5, WindowIsRecent
<1>7. /\ d.dev_config.enter_window_ms \in Nat /\ d.dev_config.presence_timeout_ms \in Nat
      /\ MinTimeout <= d.dev_config.presence_timeout_ms
      /\ MaxWindow \in Nat /\ MinTimeout \in Nat /\ d.last_seen_ms \in Nat /\ d.last_seen_ms <= now
  BY <1>1, ConfigAssumption, ObservedAssumption DEF DeviceState, StampsOK, Time
<1>8. MaxTickGap * (i - 1) <= MaxWindow /\ t - d.last_seen_ms <= MaxWindow
  BY <1>1, <1>2, <1>3, <1>6, <1>7 DEF u
<1>9. ~TimedOut(d, t)
  <2>1. Elapsed(t, d.last_seen_ms) = t - d.last_seen_ms
    BY <1>1, <1>2, <1>7 DEF Elapsed
  <2>2. t - d.last_seen_ms < d.dev_config.presence_timeout_ms
    BY <1>2, <1>7, <1>8 DEF TimeoutsOutlastWindows
  <2>. QED
    BY <1>2, <1>7, <2>1, <2>2 DEF TimedOut
<1>10. ~(d.detected /\ d.unlock_set)
  <2>1. /\ Evaluated(d, t).unlock_set = d.unlock_set
        /\ Evaluated(d, t).went_undetected = (d.went_undetected \/ TimedOut(d, t))
    BY <1>1 DEF Evaluated, DeviceState
  <2>2. ~d.unlock_set \/ d.went_undetected
    BY <1>9, <2>1 DEF EntitledAt, WantsUnlock
  <2>. QED
    BY <1>1, <2>2 DEF FlagsOK
<1>. QED
  BY <1>3, <1>8, <1>10

LEMMA TickKeepsTurns ==
  ASSUME TimeoutsOutlastWindows, IInv, TypeOK', TurnsInv, NEW t \in NextTimes, ObservedTick(t)
  PROVE  TurnsInv'
<1>1. /\ Tick(t) /\ HistoryOK /\ t \in Time /\ now \in Time /\ now <= t /\ now' = t
      /\ \A i \in Slot : slots[i] \in DeviceState /\ FlagsOK(slots[i]) /\ StampsOK(slots[i])
  BY TickOnSlots DEF ObservedTick, IInv
<1>2. CASE TickNoOp(t)
  <2>1. \A x \in Mac : owed'[x] = Never
    BY <1>2, OwedWereWanting DEF TickNoOp
  <2>2. \A i \in Slot : slots'[i].valid => slots'[i].mac \in Mac
    <3>1. \A i \in Slot : slots'[i] = Cleaned(Evaluated(slots[i], t), t)
      BY <1>2 DEF TickNoOp
    <3>2. \A i \in Slot : Evaluated(slots[i], t).valid = slots[i].valid
                          /\ Evaluated(slots[i], t).mac = slots[i].mac
      BY <1>1, EvaluatedIdentity
    <3>3. \A i \in Slot : slots[i].valid => slots[i].mac \in Mac
      BY <1>1 DEF StampsOK
    <3>4. \A i \in Slot : slots'[i].valid =>
                            slots[i].valid /\ slots'[i].mac = slots[i].mac
      BY <3>1, <3>2 DEF Cleaned, EmptySlot
    <3>. QED
      BY <3>3, <3>4
  <2>. QED
    BY <2>1, <2>2 DEF TurnsInv, OwedInTurn, OwedHaveSlots, NobodyOwedWhenQuiet
<1>3. CASE TickUnlock(t)
  <2>1. PICK k \in Slot :
          /\ WantsUnlock(slots[k], t)
          /\ \A j \in 1 .. (k - 1) : ~WantsUnlock(slots[j], t)
          /\ slots' = [n \in Slot |->
               IF n < k THEN Evaluated(slots[n], t)
               ELSE IF n = k THEN [Evaluated(slots[k], t) EXCEPT
                                     !.unlock_set = (t # 0), !.went_undetected = FALSE]
               ELSE slots[n]]
    BY <1>3 DEF TickUnlock
  <2>2. NobodyOwedWhenQuiet'
    BY <1>3 DEF TickUnlock, NobodyOwedWhenQuiet
  <2>3. /\ UnlocksFor(k, t) /\ ~(k < k)
        /\ \A i \in Slot : i < k => i \in 1 .. (k - 1)
        /\ \A i \in Slot : i # k /\ ~(i < k) => k < i
        /\ \A i \in Slot : k < i => i # k /\ ~(i < k)
    BY <2>1 DEF UnlocksFor, Slot
  <2>4. \A i \in Slot : k < i => slots'[i] = slots[i]
    BY <2>1, <2>3
  <2>5. \A i \in Slot : WantsUnlock(slots[i], t) /\ ~UnlocksFor(i, t) => k < i
    BY <2>1, <2>3
  <2>6. \A i \in Slot : slots'[i].valid = slots[i].valid /\ slots'[i].mac = slots[i].mac
    <3>1. \A i \in Slot : /\ Evaluated(slots[i], t).valid = slots[i].valid
                          /\ Evaluated(slots[i], t).mac = slots[i].mac
                          /\ Evaluated(slots[i], t) \in DeviceState
      BY <1>1, EvaluatedIdentity, EvaluatedType
    <3>2. slots'[k] = [Evaluated(slots[k], t) EXCEPT
                         !.unlock_set = (t # 0), !.went_undetected = FALSE]
      BY <2>1, <2>3
    <3>3. slots'[k].valid = slots[k].valid /\ slots'[k].mac = slots[k].mac
      BY <3>1, <3>2 DEF DeviceState
    <3>4. \A i \in Slot : i < k => slots'[i] = Evaluated(slots[i], t)
      BY <2>1
    <3>. QED
      BY <2>3, <2>4, <3>1, <3>3, <3>4
  <2>7. OwedHaveSlots'
    <3>. SUFFICES ASSUME NEW x \in Mac, owed'[x] # Never
                  PROVE  \E i \in Slot : Holds(i, x)'
      BY DEF OwedHaveSlots
    <3>1. PICK i \in Slot : Holds(i, x)
      BY OwedWereWanting
    <3>. QED
      BY <2>6, <3>1 DEF Holds
  <2>8. \A i \in Slot : slots[i].valid => slots[i].mac \in Mac
    BY <1>1 DEF StampsOK
  <2>9. ASSUME NEW i \in Slot, NEW since \in Time, slots'[i].valid, owed'[slots'[i].mac] = since
        PROVE  InTurn(i, since)'
    <3>. DEFINE x == slots[i].mac
    <3>1. slots[i].valid /\ x \in Mac /\ owed'[x] = since /\ owed'[x] # Never
      BY <2>6, <2>8, <2>9 DEF Time, Never
    <3>2. PICK h \in Slot :
            /\ Holds(h, x) /\ WantsUnlock(slots[h], t) /\ ~UnlocksFor(h, t)
            /\ \/ owed[x] # Never /\ owed'[x] = owed[x] /\ InTurn(h, owed[x])
               \/ owed'[x] = t /\ EntitledAt(h, t)
      BY <3>1, OwedWereWanting
    <3>3. h = i
      BY <3>1, <3>2 DEF Holds, IInv, SlotsAreUnique
    <3>4. k < i
      BY <2>5, <3>2, <3>3
    <3>5. CASE InTurn(i, since)
      <4>1. /\ t \in Nat /\ t <= since + MaxTickGap * (i - 1) /\ MaxTickGap * (i - 1) \in Nat
        BY <3>1, <3>5, InTurnWants
      <4>2. MaxTickGap * (i - 1) <= MaxWindow
        BY <3>5 DEF InTurn
      <4>3. k \notin Settled(i, since)
        BY <1>1, <2>1, <4>1, <4>2, SettledWantNothing
      <4>. DEFINE S == Settled(i, since)
      <4>. DEFINE c == MaxTickGap * Cardinality(S)
      <4>4. c \in Nat
        <5>1. Cardinality(S) \in Nat /\ Cardinality(S) <= Cardinality(S)
          BY SettledIsSmall, StateMachineAssumption DEF Slot
        <5>. QED
          BY <5>1, GapTimes
      <4>5. now - since + MaxTickGap <= c /\ since <= now /\ since # 0
        BY <3>5 DEF InTurn
      <4>. HIDE DEF c
      <4>6. t - since <= c /\ since <= t
        BY <1>1, <4>4, <4>5, StateMachineAssumption DEF NextTimes, Time
      <4>7. t - since <= MaxTickGap * Cardinality(S)
        BY <4>6 DEF c
      <4>. QED
        BY <1>1, <2>1, <3>4, <3>5, <4>1, <4>2, <4>3, <4>5, <4>6, <4>7, TickSettlesOne DEF InTurn
    <3>6. CASE since = t /\ EntitledAt(i, t)
      <4>1. /\ MaxTickGap * (i - 1) \in Nat /\ MaxTickGap * (i - 1) <= MaxWindow
            /\ ~(slots[i].detected /\ slots[i].unlock_set)
        BY <1>1, <3>1, <3>6, EntitledStart
      <4>2. Cardinality({}) = 0 /\ MaxTickGap * 0 = 0
        BY FS_EmptySet, StateMachineAssumption
      <4>3. t \in Nat /\ t - t = 0 /\ t <= t
        BY <1>1 DEF Time
      <4>4. since # 0 /\ since <= t /\ t <= since + MaxTickGap * (i - 1)
        BY <3>6, <4>1, <4>3 DEF EntitledAt
      <4>5. t - since <= MaxTickGap * Cardinality({})
        BY <3>6, <4>2, <4>3
      <4>6. PICK S : /\ S \subseteq Settled(i, since) /\ k \notin S
                     /\ t - since <= MaxTickGap * Cardinality(S)
        BY <4>5
      <4>7. /\ Cardinality(InWindow(slots[i], since + MaxTickGap * (i - 1)))
                 >= slots[i].dev_config.enter_min_count
            /\ \A j \in 1 .. (i - 1) : ~Repeats(slots[j])
        BY <3>6 DEF EntitledAt
      <4>. QED
        BY <1>1, <2>1, <3>4, <4>1, <4>4, <4>6, <4>7, TickSettlesOne
    <3>. QED
      BY <3>1, <3>2, <3>3, <3>5, <3>6
  <2>10. \A i \in Slot : slots'[i].valid /\ owed'[slots'[i].mac] # Never =>
                          owed'[slots'[i].mac] \in Time
    <3>1. owed' \in [Mac -> Time \cup {Never}]
      BY <1>1 DEF HistoryOK, ObservedTick
    <3>. QED
      BY <2>6, <2>8, <3>1
  <2>11. OwedInTurn'
    BY <2>9, <2>10, OwedAfter
  <2>. QED
    BY <2>2, <2>7, <2>11 DEF TurnsInv
<1>. QED
  BY <1>1, <1>2, <1>3 DEF Tick

\* Everybody's turn comes: a device passed over with observations that last is served
\* within one tick for each slot before its own, and before a tick has nothing to do.
\* The Unlocks of the others hold it up once each: none of them leaves and arrives again
\* meanwhile.
THEOREM TurnsAreServed ==
  ASSUME TimeoutsOutlastWindows
  PROVE  ObservedSpec => []PassedOverAreServed
<1>1. ObservedInit => TurnsInv
  <2>. SUFFICES ASSUME ObservedInit
                PROVE  TurnsInv
    OBVIOUS
  <2>1. \A m \in Mac : owed[m] = Never
    BY DEF ObservedInit
  <2>2. \A i \in Slot : ~slots[i].valid
    BY DEF ObservedInit, Init, EmptySlot
  <2>. QED
    BY <2>1, <2>2 DEF TurnsInv, OwedInTurn, OwedHaveSlots, NobodyOwedWhenQuiet
<1>2. TurnsInv /\ IInv /\ IInv' /\ [ObservedNext]_allVars => TurnsInv'
  <2>. SUFFICES ASSUME TurnsInv, IInv, IInv', [ObservedNext]_allVars
                PROVE  TurnsInv'
    OBVIOUS
  <2>1. TypeOK'
    BY DEF IInv
  <2>2. ASSUME NEW m \in Mac, NEW rssi \in Rssi, ObservedFeed(m, rssi)
        PROVE  TurnsInv'
    BY <2>1, <2>2, FeedKeepsTurns
  <2>3. ASSUME NEW m \in Mac, NEW cfg \in Config, ObservedUpdate(m, cfg)
        PROVE  TurnsInv'
    BY <2>1, <2>3, UpdateKeepsTurns
  <2>4. ASSUME NEW m \in Mac, ObservedRemove(m)
        PROVE  TurnsInv'
    BY <2>1, <2>4, RemoveKeepsTurns
  <2>5. ASSUME NEW t \in NextTimes, ObservedTick(t)
        PROVE  TurnsInv'
    BY <2>1, <2>5, TickKeepsTurns
  <2>6. CASE UNCHANGED allVars
    BY <2>6 DEF allVars, TurnsInv, OwedInTurn, OwedHaveSlots, NobodyOwedWhenQuiet, InTurn,
                Settled, Holds
  <2>. QED
    BY <2>2, <2>3, <2>4, <2>5, <2>6 DEF ObservedNext
<1>3. TurnsInv /\ IInv => PassedOverAreServed
  <2>. SUFFICES ASSUME TurnsInv, IInv
                PROVE  PassedOverAreServed
    OBVIOUS
  <2>1. ASSUME NEW i \in Slot, slots[i].valid, owed[slots[i].mac] # Never
        PROVE  now - owed[slots[i].mac] <= MaxTickGap * (i - 2)
    <3>1. slots[i].mac \in Mac /\ HistoryOK /\ now \in Time
      BY <2>1 DEF IInv, StampsAreSightings, StampsOK, TypeOK
    <3>2. owed[slots[i].mac] \in Time /\ InTurn(i, owed[slots[i].mac])
      BY <2>1, <3>1 DEF HistoryOK, TurnsInv, OwedInTurn
    <3>. QED
      BY <3>1, <3>2, WaitIsShort
  <2>. QED
    BY <2>1 DEF PassedOverAreServed, TurnsInv, NobodyOwedWhenQuiet
<1>. QED
  BY <1>1, <1>2, <1>3, InvariantHolds, PTL DEF ObservedSpec
===============================================================================
