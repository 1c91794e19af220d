SPECIFICATION FairSpec
CONSTANTS
  a = a  b = b  x = x
  NoMac = NoMac  Absent = Absent  Outdated = Outdated  NoSlot = NoSlot
  Mac = {a, b}
  Phone = {a}
  Config = {x}
  MaxEntries = 1
  CmdQueueDepth = 1
  QueueDepth = 2
INVARIANTS RemovalTypeOK PromisesAreKept DeletedConfigIsUnused
PROPERTY ForgottenInTheEnd
