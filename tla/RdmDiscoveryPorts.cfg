SPECIFICATION FairSpec
CONSTANTS
  kPorts = 3
  MaxStops = 1
  MaxIncremental = 1
INVARIANTS TypeOK NoLostWakeup TurnOfPort 
PROPERTIES EveryPortServed
