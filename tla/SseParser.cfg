SPECIFICATION Spec
CONSTANTS
  Limit = 4
  MaxChunk = 7
  MaxWire = 7
INVARIANTS
  TypeOK
  WireIsTiled
  BlocksByWireAlone
  FramesByWireAlone
  OnlyFramelessOverflows
