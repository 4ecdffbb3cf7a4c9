SPECIFICATION Spec
CONSTANTS
  Leases = {l1}
  Cap = 1
  None = None
  Env = {"crash", "restart", "io"}
PROPERTIES DoubtIsFinal CallsEnd
CHECK_DEADLOCK FALSE
