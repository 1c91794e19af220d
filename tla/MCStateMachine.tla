---------------------------- MODULE MCStateMachine ----------------------------
\* Small instances of StateMachine for TLC.  One unit of time is one second.
EXTENDS StateMachineObserved, TLC

CONSTANTS a, b, c    \* devices

\* Signal strengths: none (Classic), strong, weak.
MCRssi == {0, -60, -90}

Cfg(timeout, window, count) ==
  [rssi_threshold |-> -75, presence_timeout_ms |-> timeout,
   enter_window_ms |-> window, enter_min_count |-> count]

\* timeout > window: the usual order (40 s and 10 s by default).
UsualCfg == Cfg(3, 2, 2)
QuickCfg == Cfg(3, 1, 1)
MCConfigs == {UsualCfg, QuickCfg}

\* timeout > 2 * window, as the default configuration has it (40 s and 10 s).
PatientCfg == Cfg(5, 2, 1)
OnePatientCfg == {PatientCfg}

\* Devices are interchangeable: nothing orders them but the slots they get.
Symmetry == Permutations(Mac)
===============================================================================
