SPECIFICATION Spec
CONSTANTS
  None = None
  s1 = s1
  s2 = s2
  p1 = p1
  Sources = {s1, s2}
  Prompts = {p1}
  MailboxCap = 3
  PendingCap = 2
  MaxId = 2
  MaxRev = 4
  MaxPend = 2
  Env = {"erase", "chat", "io"}
SYMMETRY Symmetry
INVARIANTS
  NoScopeCollision
  NoResurrection
