\* Two CPUs count at once.
CONSTANTS
  CPUs = {c1, c2}
  Users = {u1}
  Frames <- TcpFrame
  CounterMod = 4
  MaxFrames = 2
SPECIFICATION Spec
CHECK_DEADLOCK FALSE
INVARIANT CountsEveryPacket
