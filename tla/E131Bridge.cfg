SPECIFICATION Spec
CONSTANTS
  x = x
  y = y
  z = z
  u1 = u1
  u2 = u2
  s1 = s1
  MaxPorts = 2
  NoStream = noStream
  Frames <- FramesDef
  Patch <- PatchDef
  Switches <- SwitchesDef
  Disables <- DisablesDef
  kLowest = 1
  NoAddress = noAddress
  kMergeTimeout = 1
  kPriorityTimeout = 1
  kNetworkDataLossTimeout = 1
  disable_merge_timeout = FALSE
  disable_synchronize = FALSE
INVARIANTS TypeOK TwoStreams 
PROPERTIES DiscardFreesSilent
