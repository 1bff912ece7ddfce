\* Three processes on an interface with every mode, one of them with up to two
\* options and the others with one.
CONSTANTS
  p = p
  q = q
  r = r
  Procs = {p, q, r}
  Supported = {"skb", "drv", "hw"}
  Options = {"A", "S", "N", "offload-mode", "F", "U", "d", "?"}
  MaxOptions <- TwoOneOne
  Default <- NativeNoExist
SPECIFICATION LoaderSpec
CHECK_DEADLOCK FALSE
SYMMETRY Symmetry
INVARIANTS
  AttachedInLastMode
  LeftBareIsReported
PROPERTIES
  NoExistDisplacesNothing
  SwapsInPlace
  OnlyForceDisplaces
