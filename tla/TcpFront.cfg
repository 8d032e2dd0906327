CONSTANTS
  TCP_MAX_TCBS_ALLOWED = 1
  kBlocks = 4
  kTcpUnackMax = 8
  kTcpRtxMaxRetry = 5
  kAdvertisedRxWnd = 2
  Windows = {0, 4}
  MaxUnits = 2
  MaxContent = 3
  MaxSend = 10
SPECIFICATION Spec
INVARIANT FrontExists
CHECK_DEADLOCK FALSE
