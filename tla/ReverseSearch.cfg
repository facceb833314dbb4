SPECIFICATION Spec
CONSTANTS
  Cells <- FiveCells
  Coarse <- AcrossTheFourth
  Ring <- Line
  Nearness <- Distance
  Importances = {0, 1}
  MaxPlaces = 3
  MaxLimit = 3
  MaxDamaged = 2
CHECK_DEADLOCK FALSE
INVARIANTS TypeOK LookupIsExact AdmittedLayersAreSound AnswerIsFullAndSorted BestIsTop
