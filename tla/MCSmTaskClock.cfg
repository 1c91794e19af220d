SPECIFICATION ClockSpec
CONSTANTS
  a = a
  NoMac = NoMac
  Mac = {a}
  Config <- OneCfg
  DefaultConfig <- QuickCfg
  Rssi = {0}
  MaxDevices = 1
  MaxRecentObs = 1
  StaleThreshold = 3
  TimeMod = 100
  QueueDepth = 1
  MaxDrain = 2
  TickInterval = 2
  StartupGrace = 2
  StartMs = 1
  Horizon = 5
  ControlQueueDepth = 1
  MaxWindows = 2
INVARIANTS
  TypeOK
  NoAutoUnlockInGrace
  VirtualClockSkipsPairing
PROPERTIES
  DrivesStateMachine
