SPECIFICATION FairSpec
CONSTANTS
  Devices <- TwoDevices
  MaxPlugs <- OneReplug
  MaxWalks = 1
  Room = 1
  None = None
INVARIANTS AuthorizedWhenDone
PROPERTIES NeverOlder WalkComplete FastbootReturns ReplugOpens
CHECK_DEADLOCK FALSE
