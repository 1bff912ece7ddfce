\* Two CPUs share the counters with one instance that may zero them.
CONSTANTS
  CPUs = {c1, c2}
  Users = {u1}
  Frames <- TcpFrame
  CounterMod = 3
  MaxFrames = 3
SPECIFICATION Spec
CHECK_DEADLOCK FALSE
INVARIANTS
  TypeOK
  NeverOvercounts
PROPERTY InterruptedExits
