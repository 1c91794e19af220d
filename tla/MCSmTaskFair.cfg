SPECIFICATION FairSpec
CONSTANTS
  a = a
  NoMac = NoMac
  Mac = {a}
  Config <- OneCfg
  DefaultConfig <- QuickCfg
  Rssi = {0}
  MaxDevices = 1
  MaxRecentObs = 1
  StaleThreshold = 2
  TimeMod = 3
  QueueDepth = 1
  MaxDrain = 2
  TickInterval = 1
  StartupGrace = 1
  StartMs = 1
  Horizon = 3
  ControlQueueDepth = 1
PROPERTIES
  TicksForever
  SwitchesAreObeyed
  CommandsArePulsed
  RelayIsReleased
