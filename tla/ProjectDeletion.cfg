SPECIFICATION FairDelSpec
CONSTANTS
  Snap0 = s0
  Snaps = {s0, s1}
  MaxInstr = 0
  MaxPatches = 1
  None = None
  Runs = {r1}
  Group = {}
  MaxHist = 2
  MaxCrash = 1
  Env = {"storage"}
INVARIANTS StaysRemoved NoBarrierBehind
PROPERTIES Frozen RecordsAccepted DeletionCompletes
CHECK_DEADLOCK FALSE
