\* Two CPUs: any one frame, or four frames of four shapes.
CONSTANTS
  CPUs = {c1, c2}
  Frames <- AllFrames
  VLAN_MAX_DEPTH = 2
  Repeated <- CountingFrames
  MaxFrames = 4
SPECIFICATION Spec
CHECK_DEADLOCK FALSE
INVARIANTS
  TypeOK
  ReadsInBounds
  Ipv4BehindEthernet
  CountersExact
  DropsEveryOtherPing
  L4WithinIpv4
PROPERTIES
  ImplementsPacketCounter
  FramesAreReturned
