----------------------------- MODULE SmTaskProofs -----------------------------
(***************************************************************************)
(* What the SM task keeps for every set of devices and configurations,     *)
(* every tick interval and grace period, and every depth of its queues.    *)
(* Where BeforeTheWrap is assumed the theorem is about the first 49.7 days *)
(* after a start: real and virtual time are 32-bit numbers, and the grace  *)
(* period is measured modulo 2^32.                                         *)
(***************************************************************************)
EXTENDS SmTaskClock, TLAPS

BeforeTheWrap == Horizon < TimeMod

\* When the task ticked last, or started.
LastTick == IF last_real_ms = 0 THEN StartMs ELSE last_real_ms

\* What ties the clocks together.  Time passes in xQueueReceive alone, for one tick
\* interval at most, so that no more than that lies between two ticks.
TimeInv ==
  /\ real \in StartMs .. (TimeMod - 1) /\ (real = StartMs \/ real <= Horizon)
  /\ last_real_ms \in 0 .. (TimeMod - 1) /\ LastTick \in StartMs .. real
  /\ waited \in 0 .. TickInterval
  /\ real - LastTick <= TickInterval
  /\ pc = "receive" => real - LastTick = waited
  /\ pc # "receive" => waited = 0
  /\ pc \in {"suppress", "checkPairing", "send"} => last_real_ms = real
  /\ virtual_now_ms \in 0 .. (LastTick - StartMs)

\* An Unlock that has passed the first suppression is not in the grace period.
GraceInv ==
  /\ control_queue \in Seq(ControlCommand)
  /\ pc \in {"checkPairing", "send"} => real - StartMs >= StartupGrace
  /\ NoAutoUnlockInGrace

\* The virtual clock against the time with the window closed, where Slack is what the
\* openings so far may have cost or gained.  With the window closed the time since
\* the latest tick is still to be added to the clock; with it open it is not.
Slack == TickInterval * windows

SinceTick == IF last_real_ms = 0 THEN 0 ELSE real - last_real_ms

ClockInv ==
  /\ awake \in Nat /\ windows \in Nat /\ pairing \in BOOLEAN
  /\ last_real_ms = 0 => awake <= real - StartMs
  /\ pairing  => virtual_now_ms + TickInterval <= awake + Slack
  /\ pairing  => awake <= virtual_now_ms + TickInterval + Slack
  /\ ~pairing => virtual_now_ms + SinceTick <= awake + Slack
  /\ ~pairing => awake <= virtual_now_ms + SinceTick + TickInterval + Slack

-------------------------------------------------------------------------------
LEMMA Modulo ==
  ASSUME NEW n \in Nat, NEW k \in Nat \ {0}, n < k
  PROVE  n % k = n
OBVIOUS

LEMMA TimeBounds ==
  /\ StartMs \in Nat /\ StartMs >= 1 /\ StartMs < TimeMod
  /\ TimeMod \in Nat \ {0} /\ TickInterval \in Nat \ {0}
  /\ Horizon \in Nat /\ StartupGrace \in Nat
BY SmTaskAssumption

\* The calls on the class other than tick() leave its clock and its verdict alone.
LEMMA CallsKeepClock ==
  ASSUME NEW m, NEW x,
         SM!Feed(m, x) \/ SM!UpdateDeviceConfig(m, x) \/ SM!RemoveDevice(m)
  PROVE  UNCHANGED <<virtual_now_ms, action>>
BY DEF SM!Feed, SM!UpdateDeviceConfig, SM!RemoveDevice

LEMMA TickSetsClock ==
  ASSUME NEW t, SM!Tick(t)
  PROVE  virtual_now_ms' = t /\ action' \in {"Unlock", "NoOp"}
BY DEF SM!Tick, SM!TickUnlock, SM!TickNoOp

\* Before the wrap a difference modulo 2^32 is the difference, and the clock a tick
\* computes has not wrapped either.
LEMMA ElapseIsDifference ==
  ASSUME NEW t \in 0 .. (TimeMod - 1), NEW since \in 0 .. t
  PROVE  Elapse(t, since) = t - since
<1>1. t - since \in Nat /\ t - since < TimeMod
  BY TimeBounds
<1>. QED
  BY <1>1, Modulo, TimeBounds DEF Elapse

LEMMA VirtualNowIsExact ==
  ASSUME TimeInv
  PROVE  VirtualNow = IF last_real_ms # 0 /\ ~pairing
                      THEN virtual_now_ms + (real - last_real_ms) ELSE virtual_now_ms
<1>1. CASE last_real_ms # 0 /\ ~pairing
  <2>1. last_real_ms \in 0 .. real /\ real \in 0 .. (TimeMod - 1)
    BY <1>1, TimeBounds DEF TimeInv, LastTick
  <2>2. Elapse(real, last_real_ms) = real - last_real_ms
    BY <2>1, ElapseIsDifference
  <2>3. virtual_now_ms \in 0 .. (last_real_ms - StartMs)
    BY <1>1 DEF TimeInv, LastTick
  <2>4. /\ virtual_now_ms + (real - last_real_ms) \in Nat
        /\ virtual_now_ms + (real - last_real_ms) < TimeMod
    BY <2>1, <2>3, TimeBounds
  <2>. QED
    BY <1>1, <2>2, <2>4, Modulo, TimeBounds DEF VirtualNow
<1>2. CASE ~(last_real_ms # 0 /\ ~pairing)
  BY <1>2 DEF VirtualNow
<1>. QED
  BY <1>1, <1>2

-------------------------------------------------------------------------------
\* Which steps touch what: the frame conditions of the actions, read the other way.
LEMMA WhatAStepTouches ==
  ASSUME [Next]_vars
  PROVE  /\ UNCHANGED real \/ TimePasses
         /\ UNCHANGED virtual_now_ms \/ Tick
         /\ last_real_ms' \in {last_real_ms, real}
         /\ waited' \in {0, waited} \/ (waited < TickInterval /\ waited' = waited + 1)
         /\ pc' \in {"checkPairing", "send"} => pc \in {"checkPairing", "send"} \/ Suppress
         /\ SendUnlock \/ ControlTask \/ ControlQueueSend("ManualUnlock") \/ UNCHANGED doorVars
         /\ UNCHANGED <<slots, action, snapshots>> \/ ApplyConfig \/ ApplyFeed \/ ApplyRemove \/ Tick
         /\ UNCHANGED configs \/ \E m \in Mac, cfg \in Config : SetConfig(m, cfg)
         /\ pairing' \in {pairing, ~pairing} /\ auto_unlock' \in {auto_unlock, ~auto_unlock}
<1>. USE DEF Next, SmTaskStep, Receive, ReceiveTimesOut, Drain, TakeMessage, DrainEnds,
       ApplyConfig, ApplyFeed, ApplyRemove, Tick, Suppress, CheckPairing, SendUnlock, TimePasses,
       ControlStep, PairingToggle, Requests, FeedQueueSend, RemoveDeviceQueueSend, QueueSend,
       SetConfig, AutoUnlockToggle, DoorOpen, vars, taskVars, loopVars, smVars, envVars
<1>1. UNCHANGED real \/ TimePasses
  OBVIOUS
<1>2. UNCHANGED virtual_now_ms \/ Tick
  <2>1. CASE ApplyConfig \/ ApplyFeed \/ ApplyRemove
    BY <2>1, CallsKeepClock
  <2>. QED
    BY <2>1
<1>3. last_real_ms' \in {last_real_ms, real}
  OBVIOUS
<1>4. waited' \in {0, waited} \/ (waited < TickInterval /\ waited' = waited + 1)
  OBVIOUS
<1>5. pc' \in {"checkPairing", "send"} => pc \in {"checkPairing", "send"} \/ Suppress
  OBVIOUS
<1>6. SendUnlock \/ ControlTask \/ ControlQueueSend("ManualUnlock") \/ UNCHANGED doorVars
  OBVIOUS
<1>7. UNCHANGED <<slots, action, snapshots>> \/ ApplyConfig \/ ApplyFeed \/ ApplyRemove \/ Tick
  OBVIOUS
<1>8. UNCHANGED configs \/ \E m \in Mac, cfg \in Config : SetConfig(m, cfg)
  OBVIOUS
<1>9. pairing' \in {pairing, ~pairing} /\ auto_unlock' \in {auto_unlock, ~auto_unlock}
  OBVIOUS
<1>. QED
  BY <1>1, <1>2, <1>3, <1>4, <1>5, <1>6, <1>7, <1>8, <1>9

-------------------------------------------------------------------------------
\* Steps that leave the clocks alone and do not touch xQueueReceive.
clockVars == <<real, last_real_ms, virtual_now_ms>>

LEMMA ClocksStandStill ==
  ASSUME TimeInv, UNCHANGED clockVars,
         waited' \in 0 .. TickInterval,
         pc' = "receive" => real - LastTick = waited',
         pc' # "receive" => waited' = 0,
         pc' \in {"suppress", "checkPairing", "send"} => last_real_ms = real
  PROVE  TimeInv'
<1>1. LastTick' = LastTick
  BY DEF clockVars, LastTick
<1>. QED
  BY <1>1 DEF clockVars, TimeInv

LEMMA TimeInit == Init => TimeInv
<1>. SUFFICES ASSUME Init PROVE TimeInv
  OBVIOUS
<1>1. LastTick = StartMs
  BY DEF Init, LastTick
<1>. QED
  BY <1>1, TimeBounds DEF Init, TimeInv

LEMMA TimeStep ==
  ASSUME BeforeTheWrap, TimeInv, [Next]_vars
  PROVE  TimeInv'
<1>. USE DEF clockVars
<1>1. CASE Receive
  BY <1>1, ClocksStandStill, TimeBounds DEF Receive, TakeMessage, smVars
<1>2. CASE ReceiveTimesOut
  BY <1>2, ClocksStandStill, TimeBounds DEF ReceiveTimesOut, smVars
<1>3. CASE Drain
  BY <1>3, ClocksStandStill, TimeBounds DEF Drain, TakeMessage, smVars, TimeInv
<1>4. CASE DrainEnds
  BY <1>4, ClocksStandStill, TimeBounds DEF DrainEnds, smVars, TimeInv
<1>5. CASE ApplyConfig
  BY <1>5, CallsKeepClock, ClocksStandStill, TimeBounds DEF ApplyConfig, TimeInv
<1>6. CASE ApplyFeed
  BY <1>6, CallsKeepClock, ClocksStandStill, TimeBounds DEF ApplyFeed, TimeInv
<1>7. CASE ApplyRemove
  <2>1. UNCHANGED <<virtual_now_ms, action>>
    BY <1>7, CallsKeepClock DEF ApplyRemove
  <2>. QED
    BY <1>7, <2>1, ClocksStandStill, TimeBounds DEF ApplyRemove, TimeInv
<1>8. CASE Tick
  <2>1. /\ last_real_ms' = real /\ real' = real /\ waited' = waited /\ waited = 0
        /\ pc' \in {"suppress", "receive"}
        /\ virtual_now_ms' = VirtualNow
    BY <1>8, TickSetsClock DEF Tick, TimeInv
  <2>2. LastTick' = real
    BY <2>1, TimeBounds DEF LastTick, TimeInv
  <2>3. VirtualNow \in 0 .. (real - StartMs)
    BY VirtualNowIsExact, TimeBounds DEF TimeInv, LastTick
  <2>. QED
    BY <2>1, <2>2, <2>3, TimeBounds DEF TimeInv
<1>9. CASE Suppress
  BY <1>9, ClocksStandStill, TimeBounds DEF Suppress, smVars, TimeInv, LastTick
<1>10. CASE CheckPairing
  BY <1>10, ClocksStandStill, TimeBounds DEF CheckPairing, smVars, TimeInv, LastTick
<1>11. CASE SendUnlock
  BY <1>11, ClocksStandStill, TimeBounds DEF SendUnlock, smVars, TimeInv, LastTick
<1>12. CASE TimePasses
  <2>1. /\ real' = (real + 1) % TimeMod /\ waited' = waited + 1 /\ waited < TickInterval
        /\ real < Horizon /\ pc = "receive" /\ pc' = pc
        /\ UNCHANGED <<last_real_ms, virtual_now_ms>>
    BY <1>12 DEF TimePasses, loopVars, smVars
  <2>2. real + 1 \in Nat /\ real + 1 < TimeMod
    BY <2>1, TimeBounds DEF TimeInv, BeforeTheWrap
  <2>3. real' = real + 1
    BY <2>1, <2>2, Modulo, TimeBounds
  <2>4. LastTick' = LastTick
    BY <2>1 DEF LastTick
  <2>. QED
    BY <2>1, <2>2, <2>3, <2>4, TimeBounds DEF TimeInv
<1>13. CASE ControlStep \/ PairingToggle \/ Requests
  <2>1. UNCHANGED <<real, last_real_ms, virtual_now_ms, waited, pc>>
    BY <1>13 DEF ControlStep, PairingToggle, Requests, FeedQueueSend, RemoveDeviceQueueSend,
                 QueueSend, SetConfig, AutoUnlockToggle, DoorOpen, taskVars, smVars, loopVars
  <2>. QED
    BY <2>1, ClocksStandStill DEF TimeInv
<1>14. CASE UNCHANGED vars
  BY <1>14, ClocksStandStill DEF vars, taskVars, TimeInv
<1>. QED
  BY <1>1, <1>2, <1>3, <1>4, <1>5, <1>6, <1>7, <1>8, <1>9, <1>10, <1>11, <1>12, <1>13, <1>14
     DEF Next, SmTaskStep

-------------------------------------------------------------------------------
\* What a bounded send and a receive do to the commands in a queue.
LEMMA QueueRanges ==
  ASSUME NEW S, NEW q \in Seq(S), NEW c \in S
  PROVE  /\ Append(q, c) \in Seq(S) /\ Range(Append(q, c)) \subseteq Range(q) \cup {c}
         /\ q # << >> => Head(q) \in Range(q)
         /\ q # << >> => Tail(q) \in Seq(S)
         /\ q # << >> => Range(Tail(q)) \subseteq Range(q)
<1>1. /\ Append(q, c) \in Seq(S) /\ Range(Append(q, c)) \subseteq Range(q) \cup {c}
  BY DEF Range
<1>2. ASSUME q # << >>
      PROVE  Head(q) \in Range(q) /\ Tail(q) \in Seq(S) /\ Range(Tail(q)) \subseteq Range(q)
  <2>1. /\ Head(q) = q[1] /\ 1 \in DOMAIN q /\ Tail(q) \in Seq(S)
        /\ DOMAIN Tail(q) = 1 .. (Len(q) - 1) /\ DOMAIN q = 1 .. Len(q) /\ Len(q) \in Nat
    BY <1>2
  <2>2. \A i \in DOMAIN Tail(q) : Tail(q)[i] = q[i + 1] /\ i + 1 \in DOMAIN q
    BY <1>2, <2>1
  <2>. QED
    BY <2>1, <2>2 DEF Range
<1>. QED
  BY <1>1, <1>2

\* What the control task and the web do to a queue in which no automatic command is.
LEMMA QuietControl ==
  ASSUME control_queue \in Seq(ControlCommand),
         ControlTask \/ ControlQueueSend("ManualUnlock") \/ UNCHANGED doorVars
  PROVE  /\ control_queue' \in Seq(ControlCommand)
         /\ UnderWay("AutoUnlock")' => UnderWay("AutoUnlock")
<1>1. CASE ControlReceive
  BY <1>1, QueueRanges DEF ControlReceive, UnderWay, ControlCommand
<1>2. CASE PulseBegin \/ PulseEnd
  BY <1>2 DEF PulseBegin, PulseEnd, UnderWay
<1>3. CASE ControlQueueSend("ManualUnlock")
  BY <1>3, QueueRanges DEF ControlQueueSend, UnderWay, ControlCommand
<1>4. CASE UNCHANGED doorVars
  BY <1>4 DEF doorVars, UnderWay
<1>. QED
  BY <1>1, <1>2, <1>3, <1>4 DEF ControlTask

\* Only the step from the first suppression to the second concerns the grace period.
LEMMA GraceStep ==
  ASSUME BeforeTheWrap, TimeInv, TimeInv', GraceInv, [Next]_vars
  PROVE  GraceInv'
<1>1. real <= real'
  <2>1. CASE TimePasses
    <3>1. real' = (real + 1) % TimeMod /\ real + 1 \in Nat /\ real + 1 < TimeMod
      BY <2>1, TimeBounds DEF TimePasses, TimeInv, BeforeTheWrap
    <3>. QED
      BY <3>1, Modulo, TimeBounds DEF TimeInv
  <2>2. CASE ~TimePasses
    <3>1. real' = real
      BY <2>2, WhatAStepTouches
    <3>. QED
      BY <3>1, TimeBounds DEF TimeInv
  <2>. QED
    BY <2>1, <2>2
<1>2. /\ real \in Int /\ real' \in Int
      /\ real - StartMs >= StartupGrace => real' - StartMs >= StartupGrace
  <2>1. real \in Int /\ real' \in Int
    BY TimeBounds DEF TimeInv
  <2>2. ASSUME NEW a \in Int, NEW b \in Int, a <= b, a - StartMs >= StartupGrace
        PROVE  b - StartMs >= StartupGrace
    BY <2>2, TimeBounds
  <2>. QED
    BY <2>1, <2>2, <1>1
<1>3. pc' \in {"checkPairing", "send"} => real' - StartMs >= StartupGrace
  <2>1. CASE Suppress
    <3>1. ASSUME pc' \in {"checkPairing", "send"}
          PROVE  real' - StartMs >= StartupGrace
      <4>1. ~InGrace /\ pc = "suppress"
        BY <2>1, <3>1 DEF Suppress
      <4>2. last_real_ms = real /\ StartMs \in 0 .. real /\ real \in 0 .. (TimeMod - 1)
        BY <4>1, TimeBounds DEF TimeInv
      <4>3. Elapse(last_real_ms, StartMs) = real - StartMs
        BY <4>2, ElapseIsDifference
      <4>4. Elapse(last_real_ms, StartMs) >= StartupGrace
        BY <4>1, <4>2, <4>3, TimeBounds DEF InGrace
      <4>. QED
        BY <4>3, <4>4, <1>2
    <3>. QED
      BY <3>1
  <2>2. CASE ~Suppress
    <3>1. pc' \in {"checkPairing", "send"} => pc \in {"checkPairing", "send"}
      BY <2>2, WhatAStepTouches
    <3>. QED
      BY <3>1, <1>2 DEF GraceInv
  <2>. QED
    BY <2>1, <2>2
<1>4. control_queue' \in Seq(ControlCommand) /\ NoAutoUnlockInGrace'
  <2>1. CASE SendUnlock
    <3>1. control_queue' \in Seq(ControlCommand)
      BY <2>1, QueueRanges DEF SendUnlock, ControlQueueSend, GraceInv, ControlCommand
    <3>2. real' - StartMs >= StartupGrace
      BY <2>1, <1>2 DEF SendUnlock, GraceInv
    <3>. QED
      BY <3>1, <3>2 DEF NoAutoUnlockInGrace
  <2>2. CASE ~SendUnlock
    <3>1. ControlTask \/ ControlQueueSend("ManualUnlock") \/ UNCHANGED doorVars
      BY <2>2, WhatAStepTouches
    <3>2. /\ control_queue' \in Seq(ControlCommand)
          /\ UnderWay("AutoUnlock")' => UnderWay("AutoUnlock")
      BY <3>1, QuietControl DEF GraceInv
    <3>3. UnderWay("AutoUnlock")' => real - StartMs >= StartupGrace
      BY <3>2 DEF GraceInv, NoAutoUnlockInGrace
    <3>. QED
      BY <3>2, <3>3, <1>2 DEF NoAutoUnlockInGrace
  <2>. QED
    BY <2>1, <2>2
<1>. QED
  BY <1>3, <1>4 DEF GraceInv

LEMMA GraceInit == Init => GraceInv
<1>1. Range(<< >>) = {}
  BY DEF Range
<1>. QED
  BY <1>1 DEF Init, DoorInit, GraceInv, NoAutoUnlockInGrace, UnderWay

\* Before the grace period is over in real time no automatic unlock is in the queue of
\* the control task, in its hands or on the relay, whatever is sighted, removed, toggled
\* and configured meanwhile (sm_task: suppress during startup grace).
THEOREM NoUnlockInGrace == ASSUME BeforeTheWrap PROVE Spec => []NoAutoUnlockInGrace
<1>1. Init => TimeInv /\ GraceInv
  BY TimeInit, GraceInit
<1>2. TimeInv /\ GraceInv /\ [Next]_vars => (TimeInv /\ GraceInv)'
  BY TimeStep, GraceStep
<1>3. GraceInv => NoAutoUnlockInGrace
  BY DEF GraceInv
<1>. QED
  BY <1>1, <1>2, <1>3, PTL DEF Spec

-------------------------------------------------------------------------------
LEMMA SlackIsNat ==
  ASSUME windows \in Nat
  PROVE  /\ Slack \in Nat
         /\ windows' = windows + 1 => Slack' = Slack + TickInterval
         /\ windows' = windows => Slack' = Slack
         /\ TickInterval * (windows + 2) = Slack + TickInterval + TickInterval
<1>1. ASSUME NEW n \in Nat, NEW k \in Nat
      PROVE  n * k \in Nat /\ n * (k + 1) = n * k + n /\ n * (k + 2) = n * k + n + n
  OBVIOUS
<1>. QED
  BY <1>1, TimeBounds DEF Slack

\* The time since the latest tick is at most one tick interval.
LEMMA SinceTickBound ==
  ASSUME TimeInv
  PROVE  SinceTick \in 0 .. TickInterval
BY TimeBounds DEF TimeInv, LastTick, SinceTick

LEMMA ClockInitInv == ClockInit => ClockInv
<1>. SUFFICES ASSUME ClockInit PROVE ClockInv
  OBVIOUS
<1>1. /\ awake = 0 /\ windows = 0 /\ ~pairing /\ pairing \in BOOLEAN
      /\ last_real_ms = 0 /\ real = StartMs /\ virtual_now_ms = 0
  BY DEF ClockInit, Init
<1>2. SinceTick = 0 /\ Slack = 0
  BY <1>1, TimeBounds DEF SinceTick, Slack
<1>. QED
  BY <1>1, <1>2, TimeBounds DEF ClockInv

\* Steps that move neither a clock nor the window keep the comparison.
LEMMA ClockStandsStill ==
  ASSUME ClockInv, UNCHANGED <<clockVars, pairing, awake, windows>>
  PROVE  ClockInv'
BY DEF clockVars, ClockInv, Slack, SinceTick

LEMMA ClockStep ==
  ASSUME BeforeTheWrap, TimeInv, TimeInv', ClockInv, [ClockNext]_<<vars, awake, windows>>
  PROVE  ClockInv'
<1>1. CASE ClockTimePasses
  <2>1. /\ real' = real + 1 /\ UNCHANGED <<last_real_ms, virtual_now_ms, pairing, windows>>
        /\ awake' = IF pairing THEN awake ELSE awake + 1
    <3>1. real + 1 \in Nat /\ real + 1 < TimeMod
      BY <1>1, TimeBounds DEF ClockTimePasses, TimePasses, TimeInv, BeforeTheWrap
    <3>2. real' = real + 1
      BY <1>1, <3>1, Modulo, TimeBounds DEF ClockTimePasses, TimePasses
    <3>. QED
      BY <1>1, <3>2 DEF ClockTimePasses, TimePasses, loopVars, smVars, envVars
  <2>2. Slack \in Nat /\ Slack' = Slack
    BY <2>1, SlackIsNat DEF ClockInv
  <2>3. CASE pairing
    BY <2>1, <2>2, <2>3, TimeBounds DEF ClockInv, TimeInv
  <2>4. CASE ~pairing /\ last_real_ms = 0
    <3>1. SinceTick = 0 /\ SinceTick' = 0 /\ awake' <= TickInterval /\ virtual_now_ms \in Nat
      BY <2>1, <2>4, TimeBounds DEF SinceTick, ClockInv, TimeInv, LastTick
    <3>. QED
      BY <2>1, <2>2, <2>4, <3>1, TimeBounds DEF ClockInv, TimeInv
  <2>5. CASE ~pairing /\ last_real_ms # 0
    <3>1. SinceTick' = SinceTick + 1 /\ SinceTick \in Nat /\ virtual_now_ms \in Nat
      BY <2>1, <2>5, SinceTickBound, TimeBounds DEF SinceTick, TimeInv
    <3>. QED
      BY <2>1, <2>2, <2>5, <3>1, TimeBounds DEF ClockInv
  <2>. QED
    BY <2>3, <2>4, <2>5
<1>2. CASE ClockToggle
  <2>1. /\ UNCHANGED <<real, last_real_ms, virtual_now_ms, awake>>
        /\ windows' = IF pairing THEN windows ELSE windows + 1
        /\ pairing' = ~pairing
    BY <1>2 DEF ClockToggle, PairingToggle, loopVars, smVars
  <2>2. SinceTick' = SinceTick /\ SinceTick \in 0 .. TickInterval /\ virtual_now_ms \in Nat
    BY <2>1, SinceTickBound, TimeBounds DEF SinceTick, TimeInv
  <2>3. CASE pairing
    <3>1. ~pairing' /\ windows' = windows /\ Slack \in Nat /\ Slack' = Slack
      BY <2>1, <2>3, SlackIsNat DEF ClockInv
    <3>. QED
      BY <2>1, <2>2, <2>3, <3>1, TimeBounds DEF ClockInv
  <2>4. CASE ~pairing
    <3>1. pairing' /\ windows' = windows + 1 /\ Slack \in Nat /\ Slack' = Slack + TickInterval
      BY <2>1, <2>4, SlackIsNat DEF ClockInv
    <3>. QED
      BY <2>1, <2>2, <2>4, <3>1, TimeBounds DEF ClockInv
  <2>. QED
    BY <2>3, <2>4
<1>3. CASE Tick /\ UNCHANGED <<awake, windows>>
  <2>1. /\ last_real_ms' = real /\ UNCHANGED <<real, pairing, awake, windows>>
        /\ virtual_now_ms' = VirtualNow
    BY <1>3, TickSetsClock DEF Tick, envVars
  <2>2. last_real_ms' # 0 /\ SinceTick' = 0 /\ virtual_now_ms \in Nat /\ real \in Nat
    BY <2>1, TimeBounds DEF TimeInv, SinceTick, LastTick
  <2>3. Slack \in Nat /\ Slack' = Slack
    BY <2>1, SlackIsNat DEF ClockInv
  <2>4. CASE pairing
    <3>1. virtual_now_ms' = virtual_now_ms
      BY <2>1, <2>4, VirtualNowIsExact
    <3>. QED
      BY <2>1, <2>2, <2>3, <2>4, <3>1, TimeBounds DEF ClockInv
  <2>5. CASE ~pairing
    <3>1. virtual_now_ms' = virtual_now_ms + SinceTick /\ SinceTick \in Nat
      BY <2>1, <2>2, <2>5, VirtualNowIsExact, SinceTickBound DEF SinceTick
    <3>. QED
      BY <2>1, <2>2, <2>3, <2>5, <3>1, TimeBounds DEF ClockInv
  <2>. QED
    BY <2>4, <2>5
<1>4. CASE \/ ((SmTaskStep /\ ~Tick) \/ ControlStep \/ Requests) /\ UNCHANGED <<awake, windows>>
           \/ UNCHANGED <<vars, awake, windows>>
  <2>1. UNCHANGED <<clockVars, pairing, awake, windows>>
    <3>1. CASE ApplyConfig \/ ApplyFeed \/ ApplyRemove
      <4>1. virtual_now_ms' = virtual_now_ms
        BY <3>1, CallsKeepClock DEF ApplyConfig, ApplyFeed, ApplyRemove
      <4>. QED
        BY <1>4, <3>1, <4>1 DEF ApplyConfig, ApplyFeed, ApplyRemove, clockVars, envVars, vars
    <3>2. CASE ~(ApplyConfig \/ ApplyFeed \/ ApplyRemove)
      BY <1>4, <3>2 DEF SmTaskStep, Receive, ReceiveTimesOut, Drain, TakeMessage, DrainEnds,
        Suppress, CheckPairing, SendUnlock, ControlStep, Requests, FeedQueueSend,
        RemoveDeviceQueueSend, QueueSend, SetConfig, AutoUnlockToggle, DoorOpen, taskVars,
        vars, smVars, loopVars, envVars, clockVars
    <3>. QED
      BY <3>1, <3>2
  <2>. QED
    BY <2>1, ClockStandsStill
<1>. QED
  BY <1>1, <1>2, <1>3, <1>4 DEF ClockNext

\* The record of time does not change what the task does.
LEMMA ClockNextIsNext == [ClockNext]_<<vars, awake, windows>> => [Next]_vars
BY DEF ClockNext, ClockTimePasses, ClockToggle, Next

\* The virtual clock counts the time with the pairing window closed, within one tick
\* interval for each opening and one tick's lag (sm_task: to the state machine the
\* pairing window looks like no time at all).
THEOREM VirtualClockIsAwakeTime ==
  ASSUME BeforeTheWrap PROVE ClockSpec => []VirtualClockSkipsPairing
<1>1. ClockInit => TimeInv /\ ClockInv
  BY TimeInit, ClockInitInv DEF ClockInit
<1>2. TimeInv /\ ClockInv /\ [ClockNext]_<<vars, awake, windows>> => (TimeInv /\ ClockInv)'
  BY TimeStep, ClockStep, ClockNextIsNext
<1>3. TimeInv /\ ClockInv => VirtualClockSkipsPairing
  <2>. SUFFICES ASSUME TimeInv, ClockInv PROVE VirtualClockSkipsPairing
    OBVIOUS
  <2>1. /\ SinceTick \in 0 .. TickInterval /\ virtual_now_ms \in Nat
        /\ Slack \in Nat /\ TickInterval * (windows + 2) = Slack + TickInterval + TickInterval
        /\ TickInterval * windows = Slack
    BY SinceTickBound, SlackIsNat, TimeBounds DEF ClockInv, TimeInv, Slack
  <2>2. /\ virtual_now_ms <= awake + Slack
        /\ awake - virtual_now_ms <= Slack + TickInterval + TickInterval
    BY <2>1, TimeBounds DEF ClockInv
  <2>. QED
    BY <2>1, <2>2 DEF VirtualClockSkipsPairing
<1>. QED
  BY <1>1, <1>2, <1>3, PTL DEF ClockSpec

-------------------------------------------------------------------------------
\* The message in hand is one that was sent, while it is still read, and no more than
\* MaxDrain messages are handled before a tick.
MessageInHand ==
  /\ pc \in {"apply", "feed"} => msg \in Message /\ drained < MaxDrain
  /\ pc = "feed" => msg.type = "Feed"
  /\ pc \notin {"apply", "feed", "drain"} => drained = 0

QueueTypes ==
  /\ queue \in Seq(Message) /\ Len(queue) <= QueueDepth
  /\ msg \in Message \cup {NoMessage} /\ drained \in 0 .. MaxDrain
  /\ pc \in {"receive", "apply", "feed", "drain", "tick", "suppress", "checkPairing", "send"}

SettingTypes ==
  /\ configs \in [Mac -> Config]
  /\ pairing \in BOOLEAN /\ auto_unlock \in BOOLEAN

\* What a slot may hold: a free one is of no device.
Device == {d \in SM!DeviceState : d.valid => d.mac \in Mac}

TableTypes ==
  /\ slots \in [SM!Slot -> Device] /\ action \in {"Unlock", "NoOp"}
  /\ snapshots \in SUBSET [mac : Mac, detected : BOOLEAN]

ClockTypes ==
  /\ virtual_now_ms \in SM!Time /\ last_real_ms \in SM!Time /\ real \in SM!Time
  /\ waited \in 0 .. TickInterval

LEMMA DoorTypeStep ==
  ASSUME DoorTypeOK, ControlTask \/ (\E c \in ControlCommand : ControlQueueSend(c)) \/ UNCHANGED doorVars
  PROVE  DoorTypeOK'
<1>1. CASE ControlReceive
  <2>1. /\ Tail(control_queue) \in Seq(ControlCommand) /\ Head(control_queue) \in ControlCommand
        /\ Len(Tail(control_queue)) <= ControlQueueDepth
    BY <1>1, DoorAssumption DEF ControlReceive, DoorTypeOK
  <2>. QED
    BY <1>1, <2>1 DEF ControlReceive, DoorTypeOK
<1>2. CASE PulseBegin \/ PulseEnd
  BY <1>2 DEF PulseBegin, PulseEnd, DoorTypeOK
<1>3. ASSUME NEW c \in ControlCommand, ControlQueueSend(c)
      PROVE  DoorTypeOK'
  <2>1. CASE Len(control_queue) < ControlQueueDepth
    <3>1. /\ Append(control_queue, c) \in Seq(ControlCommand)
          /\ Len(Append(control_queue, c)) <= ControlQueueDepth
      BY <2>1, DoorAssumption DEF DoorTypeOK
    <3>. QED
      BY <1>3, <2>1, <3>1 DEF ControlQueueSend, DoorTypeOK
  <2>2. CASE ~(Len(control_queue) < ControlQueueDepth)
    BY <1>3, <2>2 DEF ControlQueueSend, DoorTypeOK
  <2>. QED
    BY <2>1, <2>2
<1>4. CASE UNCHANGED doorVars
  BY <1>4 DEF doorVars, DoorTypeOK
<1>. QED
  BY <1>1, <1>2, <1>3, <1>4 DEF ControlTask

LEMMA DoorTypesKept ==
  ASSUME DoorTypeOK, [Next]_vars
  PROVE  DoorTypeOK'
<1>1. ControlTask \/ (\E c \in ControlCommand : ControlQueueSend(c)) \/ UNCHANGED doorVars
  BY WhatAStepTouches DEF SendUnlock, ControlCommand
<1>. QED
  BY <1>1, DoorTypeStep

LEMMA ClockTypesKept ==
  ASSUME ClockTypes, [Next]_vars
  PROVE  ClockTypes'
<1>1. ASSUME NEW n \in Int
      PROVE  n % TimeMod \in SM!Time
  BY TimeBounds DEF SM!Time
<1>2. real' \in SM!Time
  <2>1. real + 1 \in Int
    BY TimeBounds DEF ClockTypes, SM!Time
  <2>2. real' = (real + 1) % TimeMod \/ real' = real
    BY WhatAStepTouches DEF TimePasses
  <2>. QED
    BY <2>1, <2>2, <1>1 DEF ClockTypes
<1>3. last_real_ms' \in SM!Time
  <2>1. last_real_ms' = real \/ last_real_ms' = last_real_ms
    BY WhatAStepTouches
  <2>. QED
    BY <2>1 DEF ClockTypes
<1>4. virtual_now_ms' \in SM!Time
  <2>1. VirtualNow \in SM!Time
    <3>1. Elapse(real, last_real_ms) \in Int
      BY TimeBounds DEF Elapse, ClockTypes, SM!Time
    <3>2. virtual_now_ms + Elapse(real, last_real_ms) \in Int
      BY <3>1, TimeBounds DEF ClockTypes, SM!Time
    <3>. QED
      BY <3>2, <1>1 DEF VirtualNow, ClockTypes
  <2>2. virtual_now_ms' \in {VirtualNow, virtual_now_ms}
    BY WhatAStepTouches, TickSetsClock DEF Tick
  <2>. QED
    BY <2>1, <2>2 DEF ClockTypes
<1>5. waited' \in 0 .. TickInterval
  <2>1. waited' \in {0, waited} \/ (waited < TickInterval /\ waited' = waited + 1)
    BY WhatAStepTouches
  <2>. QED
    BY <2>1, TimeBounds DEF ClockTypes
<1>. QED
  BY <1>2, <1>3, <1>4, <1>5 DEF ClockTypes

-------------------------------------------------------------------------------
LEMMA QueueTypesKept ==
  ASSUME QueueTypes, MessageInHand, [Next]_vars
  PROVE  QueueTypes' /\ MessageInHand'
<1>1. QueueDepth \in Nat \ {0} /\ MaxDrain \in Nat \ {0}
  BY SmTaskAssumption
<1>2. ASSUME TakeMessage, drained' = drained, drained \in 0 .. (MaxDrain - 1)
      PROVE  QueueTypes' /\ MessageInHand'
  <2>1. /\ msg' \in Message /\ queue' \in Seq(Message) /\ Len(queue') <= QueueDepth
        /\ pc' = "apply"
    BY <1>1, <1>2 DEF TakeMessage, QueueTypes
  <2>. QED
    BY <1>1, <1>2, <2>1 DEF QueueTypes, MessageInHand
<1>3. CASE Receive
  BY <1>1, <1>2, <1>3 DEF Receive, MessageInHand
<1>4. CASE Drain
  BY <1>1, <1>2, <1>4 DEF Drain, QueueTypes
<1>5. CASE DrainEnds
  BY <1>1, <1>5 DEF DrainEnds, QueueTypes, MessageInHand
<1>6. CASE ReceiveTimesOut \/ Tick \/ Suppress \/ CheckPairing \/ SendUnlock
  BY <1>6 DEF ReceiveTimesOut, Tick, Suppress, CheckPairing, SendUnlock, QueueTypes, MessageInHand
<1>7. CASE ApplyConfig
  BY <1>7 DEF ApplyConfig, QueueTypes, MessageInHand
<1>8. CASE ApplyFeed \/ ApplyRemove
  <2>1. /\ drained' = drained + 1 /\ drained < MaxDrain /\ msg' = NoMessage /\ pc' = "drain"
        /\ queue' = queue
    BY <1>8 DEF ApplyFeed, ApplyRemove, Handled, MessageInHand
  <2>. QED
    BY <1>1, <2>1 DEF QueueTypes, MessageInHand
<1>9. ASSUME NEW m \in Message, QueueSend(m)
      PROVE  QueueTypes' /\ MessageInHand'
  <2>1. queue' \in Seq(Message) /\ Len(queue') <= QueueDepth
    BY <1>1, <1>9 DEF QueueSend, QueueTypes
  <2>. QED
    BY <1>9, <2>1 DEF QueueSend, loopVars, QueueTypes, MessageInHand
<1>10. CASE \E m \in Mac, rssi \in Rssi : FeedQueueSend(m, rssi)
  <2>1. PICK m \in Mac, rssi \in Rssi : FeedQueueSend(m, rssi)
    BY <1>10
  <2>2. [type |-> "Feed", mac |-> m, rssi |-> rssi] \in Message
    BY DEF Message
  <2>. QED
    BY <1>9, <2>1, <2>2 DEF FeedQueueSend
<1>11. CASE \E m \in Mac : RemoveDeviceQueueSend(m)
  <2>1. PICK m \in Mac : RemoveDeviceQueueSend(m)
    BY <1>11
  <2>2. [type |-> "RemoveDevice", mac |-> m] \in Message
    BY DEF Message
  <2>. QED
    BY <1>9, <2>1, <2>2 DEF RemoveDeviceQueueSend
<1>12. CASE TimePasses \/ ControlStep \/ PairingToggle \/ UNCHANGED vars
            \/ (\E m \in Mac, cfg \in Config : SetConfig(m, cfg)) \/ AutoUnlockToggle \/ DoorOpen
  <2>1. UNCHANGED <<queue, msg, drained, pc>>
    BY <1>12 DEF TimePasses, ControlStep, PairingToggle, SetConfig, AutoUnlockToggle, DoorOpen,
                 loopVars, taskVars, vars
  <2>. QED
    BY <2>1 DEF QueueTypes, MessageInHand
<1>. QED
  BY <1>3, <1>4, <1>5, <1>6, <1>7, <1>8, <1>10, <1>11, <1>12 DEF Next, SmTaskStep, Requests

LEMMA SettingTypesKept ==
  ASSUME SettingTypes, [Next]_vars
  PROVE  SettingTypes'
<1>1. configs' \in [Mac -> Config]
  BY WhatAStepTouches DEF SetConfig, SettingTypes
<1>2. pairing' \in BOOLEAN /\ auto_unlock' \in BOOLEAN
  BY WhatAStepTouches DEF SettingTypes
<1>. QED
  BY <1>1, <1>2 DEF SettingTypes

-------------------------------------------------------------------------------
\* What the calls of StateMachine do to a slot: it stays one, and its device stays.
LEMMA PushType ==
  ASSUME NEW obs \in Seq(SM!Time), Len(obs) <= MaxRecentObs, NEW t \in SM!Time
  PROVE  SM!Push(obs, t) \in Seq(SM!Time) /\ Len(SM!Push(obs, t)) <= MaxRecentObs
<1>1. MaxRecentObs \in Nat \ {0}
  BY SmTaskAssumption
<1>2. CASE Len(obs) < MaxRecentObs
  BY <1>1, <1>2 DEF SM!Push
<1>3. CASE ~(Len(obs) < MaxRecentObs)
  <2>1. obs # << >> /\ Tail(obs) \in Seq(SM!Time) /\ Len(Tail(obs)) = Len(obs) - 1
    BY <1>1, <1>3
  <2>. QED
    BY <1>1, <1>3, <2>1 DEF SM!Push
<1>. QED
  BY <1>2, <1>3

LEMMA EmptySlotType == SM!EmptySlot \in SM!DeviceState /\ ~SM!EmptySlot.valid
<1>1. 0 \in SM!Time /\ << >> \in Seq(SM!Time) /\ Len(<< >>) <= MaxRecentObs
  BY SmTaskAssumption, TimeBounds DEF SM!Time
<1>. QED
  BY <1>1, ConfigAssumption DEF SM!EmptySlot, SM!DeviceState

LEMMA ObservedType ==
  ASSUME NEW d \in SM!DeviceState, NEW rssi, NEW t \in SM!Time
  PROVE  /\ SM!Observed(d, rssi, t) \in SM!DeviceState
         /\ SM!Observed(d, rssi, t).mac = d.mac
<1>1. /\ SM!Push(d.recent_obs, t) \in Seq(SM!Time)
      /\ Len(SM!Push(d.recent_obs, t)) <= MaxRecentObs
  BY PushType DEF SM!DeviceState
<1>. QED
  BY <1>1 DEF SM!Observed, SM!DeviceState

LEMMA FoundType ==
  ASSUME TableTypes, NEW i \in SM!Slot, NEW m \in Mac
  PROVE  /\ SM!FoundOrCreated(i, m) \in SM!DeviceState
         /\ SM!FoundOrCreated(i, m).mac \in Mac
BY EmptySlotType DEF SM!FoundOrCreated, TableTypes, Device, SM!DeviceState, SM!EmptySlot

LEMMA EvaluatedType ==
  ASSUME NEW d \in SM!DeviceState, NEW t \in SM!Time
  PROVE  /\ SM!Evaluated(d, t) \in SM!DeviceState
         /\ SM!Evaluated(d, t).mac = d.mac /\ SM!Evaluated(d, t).valid = d.valid
<1>1. SM!PresentAt(d, t) \in BOOLEAN /\ SM!TimedOut(d, t) \in BOOLEAN
  BY DEF SM!PresentAt, SM!TimedOut, SM!Enters
<1>2. (d.went_undetected \/ SM!TimedOut(d, t)) \in BOOLEAN
  OBVIOUS
<1>. QED
  BY <1>1, <1>2 DEF SM!Evaluated, SM!DeviceState

LEMMA DeviceKept ==
  ASSUME NEW d \in Device, NEW t \in SM!Time
  PROVE  /\ SM!Evaluated(d, t) \in Device
         /\ SM!Cleaned(SM!Evaluated(d, t), t) \in Device
         /\ [SM!Evaluated(d, t) EXCEPT !.unlock_set = (t # 0), !.went_undetected = FALSE]
              \in Device
<1>1. SM!Evaluated(d, t) \in Device
  BY EvaluatedType DEF Device
<1>2. SM!Cleaned(SM!Evaluated(d, t), t) \in Device
  BY <1>1, EmptySlotType DEF SM!Cleaned, Device
<1>3. (t # 0) \in BOOLEAN
  OBVIOUS
<1>. QED
  BY <1>1, <1>2, <1>3 DEF Device, SM!DeviceState

LEMMA SnapshotType ==
  ASSUME NEW table \in [SM!Slot -> Device]
  PROVE  Snapshot(table) \in SUBSET [mac : Mac, detected : BOOLEAN]
BY DEF Snapshot, Device, SM!DeviceState

LEMMA TableTypesKept ==
  ASSUME TableTypes, ClockTypes, QueueTypes, MessageInHand, SettingTypes, ClockTypes', [Next]_vars
  PROVE  TableTypes'
<1>1. CASE ApplyConfig
  <2>1. msg.mac \in Mac /\ configs[msg.mac] \in Config
    BY <1>1 DEF ApplyConfig, MessageInHand, Message, SettingTypes
  <2>2. ASSUME NEW i \in SM!Slot
        PROVE  [SM!FoundOrCreated(i, msg.mac) EXCEPT !.dev_config = configs[msg.mac]] \in Device
    BY <2>1, FoundType DEF Device, SM!DeviceState
  <2>. QED
    BY <1>1, <2>2 DEF ApplyConfig, SM!UpdateDeviceConfig, TableTypes
<1>2. CASE ApplyFeed
  <2>1. msg.mac \in Mac
    BY <1>2 DEF ApplyFeed, MessageInHand, Message
  <2>2. ASSUME NEW i \in SM!Slot
        PROVE  SM!Observed(SM!FoundOrCreated(i, msg.mac), msg.rssi, virtual_now_ms) \in Device
    BY <2>1, FoundType, ObservedType DEF Device, ClockTypes
  <2>. QED
    BY <1>2, <2>2 DEF ApplyFeed, SM!Feed, TableTypes
<1>3. CASE ApplyRemove
  BY <1>3, EmptySlotType DEF ApplyRemove, SM!RemoveDevice, TableTypes, Device
<1>4. CASE Tick
  <2>1. VirtualNow \in SM!Time
    BY <1>4, TickSetsClock DEF Tick, ClockTypes
  <2>2. slots' \in [SM!Slot -> Device]
    <3>1. CASE SM!TickUnlock(VirtualNow)
      <4>1. PICK k \in SM!Slot : slots' = [i \in SM!Slot |->
               IF i < k THEN SM!Evaluated(slots[i], VirtualNow)
               ELSE IF i = k THEN [SM!Evaluated(slots[k], VirtualNow) EXCEPT
                                     !.unlock_set = (VirtualNow # 0), !.went_undetected = FALSE]
               ELSE slots[i]]
        BY <3>1 DEF SM!TickUnlock
      <4>2. \A i \in SM!Slot : slots[i] \in Device /\ SM!Evaluated(slots[i], VirtualNow) \in Device
        BY <2>1, DeviceKept DEF TableTypes
      <4>3. [SM!Evaluated(slots[k], VirtualNow) EXCEPT
               !.unlock_set = (VirtualNow # 0), !.went_undetected = FALSE] \in Device
        BY <2>1, DeviceKept DEF TableTypes
      <4>. QED
        BY <4>1, <4>2, <4>3
    <3>2. CASE SM!TickNoOp(VirtualNow)
      BY <3>2, <2>1, DeviceKept DEF SM!TickNoOp, TableTypes
    <3>. QED
      BY <1>4, <3>1, <3>2 DEF Tick, SM!Tick
  <2>3. action' \in {"Unlock", "NoOp"} /\ snapshots' = Snapshot(slots')
    BY <1>4, TickSetsClock DEF Tick
  <2>. QED
    BY <2>2, <2>3, SnapshotType DEF TableTypes
<1>5. CASE ~(ApplyConfig \/ ApplyFeed \/ ApplyRemove \/ Tick)
  BY <1>5, WhatAStepTouches DEF TableTypes
<1>. QED
  BY <1>1, <1>2, <1>3, <1>4, <1>5

-------------------------------------------------------------------------------
TaskTypes ==
  /\ DoorTypeOK /\ ClockTypes /\ QueueTypes /\ MessageInHand /\ SettingTypes /\ TableTypes

LEMMA TaskTypesInit == Init => TaskTypes
<1>. SUFFICES ASSUME Init PROVE TaskTypes
  OBVIOUS
<1>1. DoorTypeOK
  <2>1. control_queue \in Seq(ControlCommand) /\ Len(control_queue) <= ControlQueueDepth
    BY DoorAssumption DEF Init, DoorInit
  <2>2. pulse_in_progress \in BOOLEAN /\ gpio \in {0, 1}
    BY DEF Init, DoorInit
  <2>. QED
    BY <2>1, <2>2 DEF Init, DoorInit, DoorTypeOK
<1>2. ClockTypes
  BY TimeBounds DEF Init, ClockTypes, SM!Time
<1>3. QueueTypes /\ MessageInHand
  BY SmTaskAssumption DEF Init, QueueTypes, MessageInHand
<1>4. SettingTypes
  BY DEF Init, SettingTypes
<1>5. TableTypes
  <2>1. PICK stored \in SUBSET Mac : slots \in Preloaded(stored)
    BY DEF Init
  <2>2. SM!EmptySlot \in Device
    BY EmptySlotType DEF Device
  <2>. DEFINE Stored(m) == [SM!EmptySlot EXCEPT !.mac = m, !.valid = TRUE,
                                                !.dev_config = configs[m]]
  <2>3. \A m \in stored : Stored(m) \in Device
    BY <2>1, <1>4, EmptySlotType DEF Device, SM!DeviceState, SettingTypes
  <2>4. slots \in [SM!Slot -> {SM!EmptySlot} \cup {Stored(m) : m \in stored}]
    BY <2>1 DEF Preloaded
  <2>5. slots \in [SM!Slot -> Device]
    <3>. HIDE DEF Stored
    <3>1. \A d \in {SM!EmptySlot} \cup {Stored(m) : m \in stored} : d \in Device
      BY <2>2, <2>3
    <3>. QED
      BY <2>4, <3>1
  <2>. QED
    BY <2>5 DEF Init, TableTypes
<1>. QED
  BY <1>1, <1>2, <1>3, <1>4, <1>5 DEF TaskTypes

LEMMA TaskTypesStep == TaskTypes /\ [Next]_vars => TaskTypes'
BY DoorTypesKept, ClockTypesKept, QueueTypesKept, SettingTypesKept, TableTypesKept DEF TaskTypes

\* Whatever is sighted, removed, set and clicked, and however the tasks take turns,
\* both queues stay within their depth, no more than MaxDrain messages are handled
\* between two ticks, and what the task knows of a device stays well-formed.
THEOREM SmTaskTypeCorrect == Spec => []TypeOK
<1>1. TaskTypes => TypeOK
  BY DEF TaskTypes, ClockTypes, QueueTypes, SettingTypes, TableTypes, Device, TypeOK
<1>. QED
  BY <1>1, TaskTypesInit, TaskTypesStep, PTL DEF Spec

\* Every change of the table is one call of the class on a configuration, a device and
\* a signal it is specified for, and tick() sees a clock that neither runs backwards
\* nor jumps by more than one tick interval: the task is one of the callers that
\* StateMachine's theorems are about.
THEOREM TaskCallsTheClass == ASSUME BeforeTheWrap PROVE Spec => DrivesStateMachine
<1>. DEFINE Inv == TaskTypes /\ TimeInv
<1>1. Init => Inv
  BY TaskTypesInit, TimeInit
<1>2. Inv /\ [Next]_vars => Inv'
  BY TaskTypesStep, TimeStep
<1>3. Inv /\ [Next]_vars => [SM!Next]_smVars
  <2>. SUFFICES ASSUME TaskTypes, TimeInv, [Next]_vars
                PROVE  [SM!Next]_smVars
    OBVIOUS
  <2>1. CASE ApplyConfig
    <3>1. msg.mac \in Mac /\ configs[msg.mac] \in Config
      BY <2>1 DEF ApplyConfig, TaskTypes, MessageInHand, Message, SettingTypes
    <3>. QED
      BY <2>1, <3>1 DEF ApplyConfig, SM!Next
  <2>2. CASE ApplyFeed
    <3>1. msg.mac \in Mac /\ msg.rssi \in Rssi
      BY <2>2 DEF ApplyFeed, TaskTypes, MessageInHand, Message
    <3>. QED
      BY <2>2, <3>1 DEF ApplyFeed, SM!Next
  <2>3. CASE ApplyRemove
    <3>1. msg.mac \in Mac
      BY <2>3 DEF ApplyRemove, TaskTypes, MessageInHand, Message
    <3>. QED
      BY <2>3, <3>1 DEF ApplyRemove, SM!Next
  <2>4. CASE Tick
    <3>1. VirtualNow \in virtual_now_ms .. Horizon
      BY VirtualNowIsExact, TimeBounds DEF TimeInv, LastTick
    <3>2. VirtualNow <= virtual_now_ms + TickInterval
      BY VirtualNowIsExact, TimeBounds DEF TimeInv, LastTick
    <3>. QED
      BY <2>4, <3>1, <3>2 DEF Tick, SM!Next, SM!NextTimes
  <2>5. CASE ~(ApplyConfig \/ ApplyFeed \/ ApplyRemove \/ Tick)
    BY <2>5, WhatAStepTouches DEF smVars
  <2>. QED
    BY <2>1, <2>2, <2>3, <2>4, <2>5
<1>. QED
  BY <1>1, <1>2, <1>3, PTL DEF Spec, DrivesStateMachine
===============================================================================
