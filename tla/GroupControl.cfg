SPECIFICATION FairGroupSpec
CONSTANTS
  Snap0 = s0
  Snaps = {s0}
  MaxInstr = 0
  MaxPatches = 0
  None = None
  g1 = g1
  Runs = {g1}
  Group = {g1}
  MaxHist = 1
  MaxRuns = 1
  Env = {}
CHECK_DEADLOCK FALSE
PROPERTIES GroupControlEnds
