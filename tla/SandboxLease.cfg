SPECIFICATION Spec
CONSTANTS
  Leases = {l1, l2}
  Cap = 1
  None = None
  Env = {"crash", "restart", "io"}
INVARIANTS CapHeld ClosedEmpty
PROPERTIES FenceProven ImplementsPromise
CHECK_DEADLOCK FALSE
SYMMETRY Sym
