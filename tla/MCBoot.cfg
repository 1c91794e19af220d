SPECIFICATION FairSpec
CONSTANTS
  MaxRetries = 1
  PanicThreshold = 2
  CountMod = 4
INVARIANTS
  TypeOK
  HandlersAreSafe
  SafeModeIsEarned
  SomethingBoots
PROPERTIES
  CrashLoopIsBroken
  LinkComesBack
  AcceptedFirmwareRuns
