SPECIFICATION FairAppSpec
CONSTANTS
  Snap0 = s0
  Snaps = {s0, s1}
  MaxInstr = 1
  MaxPatches = 0
  None = None
  p1 = p1
  g1 = g1
  Runs = {p1, g1}
  Group = {g1}
  MaxHist = 2
  MaxRuns = 1
  Env = {"crash", "move", "storage"}
INVARIANTS ReferencedFirst
PROPERTIES ReleasedWhenClosed CleanAdmission CancelEnds DriveEnds
CHECK_DEADLOCK FALSE
