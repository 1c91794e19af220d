SPECIFICATION ObservedSpec
CONSTANTS
  a = a
  b = b
  c = c
  NoMac = NoMac
  Mac = {a, b, c}
  Config <- OnePatientCfg
  DefaultConfig <- PatientCfg
  Rssi = {0}
  MaxDevices = 3
  MaxRecentObs = 1
  StaleThreshold = 6
  TimeMod = 100
  StartTime = 0
  MaxTickGap = 1
  Horizon = 6
  MaxWindow = 2
  MinTimeout = 5
  MaxTimeout = 5
INVARIANTS
  PassedOverAreServed
SYMMETRY Symmetry
