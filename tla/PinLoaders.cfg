\* Loaders of all kinds race for the path.
CONSTANTS
  Loaders <- TheLoaders
  kind <- TheKinds
  def <- TheDefs
SPECIFICATION Spec
CHECK_DEADLOCK FALSE
INVARIANTS
  TypeOK
  LoadersShareThePin
  ReusedMapFits
PROPERTIES
  OnlyOwnPinRemoved
  LoadersFinish
