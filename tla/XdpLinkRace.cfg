\* The check of the expected program and its removal are two requests.
CONSTANTS
  Procs = {p, q, r}
  Supported = {"skb", "drv"}
SPECIFICATION Spec
CHECK_DEADLOCK FALSE
SYMMETRY Symmetry
PROPERTY RemovesOnlyExpected
