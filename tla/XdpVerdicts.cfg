\* Two CPUs, two frames of every shape, any program on either.
CONSTANTS
  CPUs = {c1, c2}
  Frames <- AllFrames
  VLAN_MAX_DEPTH = 2
  MaxFrames = 2
SPECIFICATION Spec
CHECK_DEADLOCK FALSE
SYMMETRY Symmetry
INVARIANTS
  StatsExact
  DropsTcp
