SPECIFICATION Spec
CONSTANTS
  x = x
  y = y
  z = z
  u1 = u1
  u2 = u2
  s1 = s1
  MaxPorts = 1
  NoStream = noStream
  Frames <- ThirdDef
  Patch <- OnePortDef
  Switches = {}
  Disables = {}
  kLowest = 1
  NoAddress = noAddress
  kMergeTimeout = 1
  kPriorityTimeout = 1
  kNetworkDataLossTimeout = 1
  disable_merge_timeout = FALSE
  disable_synchronize = FALSE
INVARIANTS SynchronizedHasAddress
