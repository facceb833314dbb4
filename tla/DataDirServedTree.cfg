SPECIFICATION Spec
CONSTANTS
  i1 = i1
  i2 = i2
  e1 = e1
  e2 = e2
  Importers = {i1, i2}
  Engines = {e1}
  Old = Old
  None = None
  InitialParts <- ServedStart
  PlaceCount <- SamePlaceCount
  OverlappingImports = FALSE
  UnlinkOrder <- OneOrder
  ParentListable = TRUE
  Faults <- NoFaults
CHECK_DEADLOCK FALSE
PROPERTY ServedTreeStays
