SPECIFICATION Spec
CONSTANTS
  None = None
  s1 = s1
  s2 = s2
  s3 = s3
  p1 = p1
  Sources = {s1, s2, s3}
  Prompts = {p1}
  MailboxCap = 3
  PendingCap = 2
  MaxId = 1
  MaxRev = 9
  MaxPend = 2
  Env = {"limits", "surface", "time", "chat", "stop"}
SYMMETRY Symmetry
INVARIANTS
  TypeOK
  AppliedIsSeen
PROPERTIES
  MailboxKept
  FreshDelivery
  TerminalAbsorbing
  ExpiryTakesExpired
