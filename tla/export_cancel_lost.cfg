CONSTANTS
  j1 = j1
  j2 = j2
  l1 = l1
  l2 = l2
  r1 = r1
  r2 = r2
  n1 = n1
  Jobs = {j1}
  NvrOf <- MCNvrOf
  CreatedAt <- MCCreatedAt
  DefaultDir = "tmp"
  ConfigDir = "exports"
  MaxSegments = 1
  Loops = {l1}
  MainLoop = l1
  MaxConcurrent = 1
  EncodeH264 = TRUE
  OneDrive = TRUE
  Requests = {r1}
  Ops <- MCOpsOnlyCancel
  Faults = {}
  MaxReboots = 0
  MaxUploads = 4
  NoJob = NoJob
  NoLoop = NoLoop
  NoDir = NoDir
SPECIFICATION Spec
PROPERTIES CancelIsFinal
