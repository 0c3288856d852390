SPECIFICATION FairSpec
CONSTANTS
  r = r  w = w  ep1 = ep1  ep2 = ep2  ep3 = ep3
  None = None
  Threads = {r, w}
  Endpoints = {ep1, ep2}
  Uses <- OneEach
  Lengths = {1}
  MaxBufSize = 1
  NFSEP = 4
  MaxTransfers <- ThreeAndTwo
PROPERTIES NoNoticeLost TransfersReturn
CHECK_DEADLOCK FALSE
