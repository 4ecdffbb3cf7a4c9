SPECIFICATION Spec
CONSTANTS
  None = None
  s1 = s1
  s2 = s2
  s3 = s3
  s4 = s4
  p1 = p1
  Sources = {s1, s2, s3, s4}
  Prompts = {p1}
  MailboxCap = 4
  PendingCap = 3
  MaxPasses = 2
  MaxRuns = 2
  Env = {"stop", "quotes", "limits"}
SYMMETRY Symmetry
CHECK_DEADLOCK FALSE
INVARIANTS
  TypeOK
  OrderlyExit
PROPERTIES
  NotDropped
  ErasedWhenSettled
  QuoteNotOvertaken
