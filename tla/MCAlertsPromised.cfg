SPECIFICATION Spec
CONSTANTS
  a = a
  b = b
  u = u
  v = v
  Ip = {a, b}
  NoIp = NoIp
  FailWindow = 1
  FailCooldown = 2
  FailGlobalWindow = 3
  FailThreshold = 3
  FailGlobalThresh = 3
  SlackQueueDepth = 1
  Url = {u, v}
  NoUrl = NoUrl
INVARIANT PromisedFailuresAreReported
SYMMETRY Symmetry
