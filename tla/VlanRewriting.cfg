\* Up to three calls on one packet of every shape.
CONSTANTS
  Packets <- AllPackets
  Vlids = {5, 65537}
  MaxCalls = 3
SPECIFICATION Spec
CHECK_DEADLOCK FALSE
INVARIANT TouchesFrameOnly
PROPERTY ImplementsVlanStack
