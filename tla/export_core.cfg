CONSTANTS
  j1 = j1
  j2 = j2
  l1 = l1
  l2 = l2
  r1 = r1
  r2 = r2
  n1 = n1
  Jobs = {j1, j2}
  NvrOf <- MCNvrOf
  CreatedAt <- MCCreatedAt
  DefaultDir = "tmp"
  ConfigDir = "exports"
  MaxSegments = 2
  Loops = {l1}
  MainLoop = l1
  MaxConcurrent = 1
  EncodeH264 = FALSE
  OneDrive = TRUE
  Requests = {r1, r2}
  Ops <- MCOpsCore
  Faults = {}
  MaxReboots = 0
  MaxUploads = 4
  NoJob = NoJob
  NoLoop = NoLoop
  NoDir = NoDir
SPECIFICATION Spec
INVARIANTS TypeOK ActiveOwned ChannelLive CancelReachable NoLeftover  NoOrphan 
