SPECIFICATION FairSpec
CONSTANTS
  CmdQueueDepth = 1
  MaxInputs = 3
INVARIANTS
  TypeOK
  FlagsTellTheTruth
PROPERTIES
  WindowCloses
  WindowOpens
  ScanResumes
