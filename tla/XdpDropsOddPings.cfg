\* One CPU and two pings.
CONSTANTS
  CPUs = {c1}
  Frames <- PingFrames
  VLAN_MAX_DEPTH = 2
  Repeated <- PingFrames
  MaxFrames = 2
SPECIFICATION Spec
CHECK_DEADLOCK FALSE
INVARIANT DropsOddPings
