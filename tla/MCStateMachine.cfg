SPECIFICATION ObservedSpec
CONSTANTS
  a = a
  b = b
  c = c
  NoMac = NoMac
  Mac = {a, b}
  Config <- MCConfigs
  DefaultConfig <- UsualCfg
  Rssi <- MCRssi
  MaxDevices = 2
  MaxRecentObs = 2
  StaleThreshold = 3
  TimeMod = 100
  StartTime = 0
  MaxTickGap = 2
  Horizon = 4
  MaxWindow = 2
  MinTimeout = 3
  MaxTimeout = 3
INVARIANTS
  TypeOK
  SlotsAreUnique
  FlagsAgree
  StampsAreSightings
PROPERTIES
  UnlockNeedsSighting
  ImplementsPresence
SYMMETRY Symmetry
