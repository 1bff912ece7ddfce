\* Two instances attach, print and clean up while frames pass both filters.
CONSTANTS
  CPUs = {c1}
  Users = {u1, u2}
  Frames <- ChainFrames
  CounterMod = 2
  MaxFrames = 2
SPECIFICATION Spec
CHECK_DEADLOCK FALSE
SYMMETRY Symmetry
INVARIANTS
  CountedOncePerKey
  LeavesNoFilter
  CountsEveryPacket
