SPECIFICATION Spec
CONSTANTS
  ipX = ipX
  ipY = ipY
  MaxPorts = 2
  Streams <- StreamsDef
  Patch <- PatchDef
  Switches <- SwitchesDef
  NoIp = noIp
  NoPhysical = 256
  u1 = u1
  u2 = u2
  kMergeTimeout = 1
  kSyncTimeout = 1
  kNetworkDataLossTimeout = 1
  disable_merge_timeout = FALSE
  Playback = TRUE
PROPERTIES SendsSlots
