------------------------------- MODULE MCSmTask -------------------------------
\* Small instances of SmTask for TLC.  One unit of time is one second or more.
EXTENDS SmTask, TLC

CONSTANTS a    \* a device

Cfg(timeout, window, count) ==
  [rssi_threshold |-> -75, presence_timeout_ms |-> timeout,
   enter_window_ms |-> window, enter_min_count |-> count]

QuickCfg == Cfg(2, 1, 1)
OneCfg   == {QuickCfg}
===============================================================================
