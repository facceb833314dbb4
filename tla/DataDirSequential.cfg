SPECIFICATION Spec
CONSTANTS
  i1 = i1
  i2 = i2
  e1 = e1
  e2 = e2
  Importers = {i1, i2}
  Engines = {e1, e2}
  Old = Old
  None = None
  InitialParts <- AnyStart
  PlaceCount <- SamePlaceCount
  OverlappingImports = FALSE
  UnlinkOrder <- AnyOrder
  ParentListable = TRUE
  Faults <- ErrorsAndCrashes
CHECK_DEADLOCK FALSE
SYMMETRY Interchangeable
INVARIANTS TypeOK LiveWhole GuardedEngineReadsOneTree CleanupRemovesOrphans
PROPERTIES GuardedTreeStays OnlyCleanupLosesTheIndex ImplementsLiveIndex
