SPECIFICATION Spec
CONSTANTS
  a = a  b = b  c = c  a1 = a1  a2 = a2
  Ble = {a, b}
  Classic = {c}
  Addr = {a1, a2}
  OwnerOf <- MCOwnerOf
  NoMac = NoMac  NoAddr = NoAddr
  MaxBonds = 2
  NegCacheSize = 1
  CmdQueueDepth = 1
  MaxRemoving = 1
  Unreadable = {}
INVARIANT BondedAreCached
