SPECIFICATION Spec
CONSTANTS
  Snap0 = s0
  Snaps = {s0, s1, s2}
  MaxInstr = 1
  MaxPatches = 1
  None = None
  Runs = {r1}
  Group = {r1}
  MaxHist = 2
  Env = {"crash", "move", "fence", "storage"}
INVARIANTS EffectHonest NoOverlap TreeMatchesRecord
PROPERTIES CommitIsProved TerminalIsFinal
CHECK_DEADLOCK FALSE

SYMMETRY Sym
