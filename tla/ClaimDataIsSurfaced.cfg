SPECIFICATION Spec
CONSTANTS
  Limit = 4
  MaxChunk = 7
  MaxWire = 7
INVARIANT
  DataIsSurfaced
