------------------------------ MODULE SmTaskClock ------------------------------
(***************************************************************************)
(* SmTask with a record of how long the pairing window has been closed, to *)
(* compare the virtual clock with.                                         *)
(***************************************************************************)
EXTENDS SmTask

CONSTANTS MaxWindows    \* how often the pairing window is opened, at most; bounds TLC

ASSUME ClockAssumption == MaxWindows \in Nat

VARIABLES
  awake,     \* time that has passed with the pairing window closed
  windows    \* how often the pairing window was opened

ClockInit == Init /\ awake = 0 /\ windows = 0

ClockTimePasses ==
  /\ TimePasses
  /\ awake' = IF pairing THEN awake ELSE awake + 1
  /\ UNCHANGED windows

ClockToggle ==
  /\ PairingToggle
  /\ pairing \/ windows < MaxWindows
  /\ windows' = IF pairing THEN windows ELSE windows + 1
  /\ UNCHANGED awake

ClockNext ==
  \/ ClockTimePasses
  \/ ClockToggle
  \/ (SmTaskStep \/ ControlStep \/ Requests) /\ UNCHANGED <<awake, windows>>

ClockSpec == ClockInit /\ [][ClockNext]_<<vars, awake, windows>>

\* The virtual clock counts the time with the pairing window closed, and no other
\* (sm_task: to the state machine the pairing window looks like no time at all).
\* It samples the window once a tick, so each opening may cost up to one tick
\* interval and each closing may gain as much; it also lags by the time since the
\* latest tick, and by the first tick, which only starts it.
VirtualClockSkipsPairing ==
  /\ virtual_now_ms <= awake + TickInterval * windows
  /\ awake - virtual_now_ms <= TickInterval * (windows + 2)
===============================================================================
