SPECIFICATION FairSystemSpec
CONSTANTS
  srv = srv
  i1 = i1
  l1 = l1
  b1 = b1
  b2 = b2
  Srv = srv
  Light <- OneLight
  Bulk <- TwoBulk
  Threads = 1
  PoolSize = 1
  Importers = {i1}
  Old = Old
  None = None
  InitialParts <- ServedStart
  PlaceCount <- SamePlaceCount
  OverlappingImports = FALSE
  ParentListable = FALSE
  UnlinkOrder <- OneOrder
  Faults <- ReturnedErrors
CHECK_DEADLOCK FALSE
INVARIANTS TypeOK NobodyLosesItsJob OneGeneration EndedImportLeavesNoSibling
PROPERTIES UseKeepsTree EveryRequestEnds ShutdownCompletes LiveReturns
