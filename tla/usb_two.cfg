SPECIFICATION Spec
CONSTANTS
  r = r  w = w  ep1 = ep1  ep2 = ep2  ep3 = ep3
  None = None
  Threads = {r, w}
  Endpoints = {ep1, ep2, ep3}
  Uses <- Crowded
  Lengths = {0, 2, 3}
  MaxBufSize = 2
  NFSEP = 2
  MaxTransfers <- UpToTwo
INVARIANTS TypeOK OwnResult TableMatchesDriver OneSlotPerEndpoint
CHECK_DEADLOCK FALSE
