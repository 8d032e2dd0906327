CONSTANTS
  TCP_MAX_TCBS_ALLOWED = 2
  kBlocks = 1
  kTcpUnackMax = 2
  kTcpRtxMaxRetry = 1
  kAdvertisedRxWnd = 2
  Windows = {0, 1}
  MaxUnits = 2
  MaxContent = 1
  MaxSend = 4
SPECIFICATION FairSpec
INVARIANT TypeOK
INVARIANT InOrder
INVARIANT OwnedOnce
PROPERTY HalfConnectionsEnd
CHECK_DEADLOCK FALSE
