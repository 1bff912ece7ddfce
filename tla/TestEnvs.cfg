\* Two invocations at a time, three in all, on two environments, killed or failing
\* anywhere.
CONSTANTS
  Procs = {p, q}
  Names = {a, b}
  MaxInvocations = 3
SPECIFICATION Spec
CHECK_DEADLOCK FALSE
SYMMETRY Symmetry
INVARIANTS
  PrefixesUnique
  EnvironmentsWhole
  ResetMeetsNoLeftovers
