SPECIFICATION Spec
CONSTANTS
  None = None
  s1 = s1
  s2 = s2
  p1 = p1
  Sources = {s1, s2}
  Prompts = {p1}
  MailboxCap = 3
  PendingCap = 2
  MaxId = 2
  MaxRev = 6
  MaxPend = 2
  Env = {"crash", "io", "stop", "reconnect"}
SYMMETRY Symmetry
INVARIANTS
  FinalOnce
  SentIsLedgered
  ReceiptsTruthful
  AnswerToDelivered
PROPERTIES
  ImplementsBarrier
