SPECIFICATION Spec
CONSTANTS
  a = a
  b = b
  u = u
  v = v
  Ip = {a, b}
  NoIp = NoIp
  FailWindow = 1
  FailCooldown = 2
  FailGlobalWindow = 3
  FailThreshold = 2
  FailGlobalThresh = 2
  SlackQueueDepth = 1
  Url = {u, v}
  NoUrl = NoUrl
INVARIANTS
  TypeOK
  RepeatedFailuresAreReported
  RotationIsReported
  HeapIsOwned
  UrlIsAsAnswered
SYMMETRY Symmetry
