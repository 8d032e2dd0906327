SPECIFICATION FairSpec
CONSTANTS
  Half = 4
  kTableSize = 3
  kUnmuteCounter = 2
  kMuteCounter = 2
  kDiscoveryCounter = 2
  kQuikfindCounter = 2
  kQuikfindDiscoveryCounter = 2
  kDiscoveryStackSize = 3
  Lines <- MCLines
INVARIANTS TypeOK Complete RangesOrdered
PROPERTIES ListedWhenMuted Implements EndsUndisturbed
