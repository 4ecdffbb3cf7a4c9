SPECIFICATION FairSpec
CONSTANTS
  None = None
  s1 = s1
  s2 = s2
  s3 = s3
  p1 = p1
  Sources = {s1, s2, s3}
  Prompts = {p1}
  MailboxCap = 4
  PendingCap = 3
  MaxPasses = 2
  MaxRuns = 2
  Env = {"stop", "limits"}
CHECK_DEADLOCK FALSE
PROPERTIES
  RunSettles
