SPECIFICATION Spec
CONSTANTS
  None = None
  NoLimit = NoLimit
  TokenBytes = 3
  Tagged <- Plain
  Queries <- PlainQueries
  Limits = {NoLimit, 0, 2, 3}
  MaxPlaces = 3
  MaxScore = 2
  DEFAULT_LIMIT = 1
  MAX_LIMIT = 2
CHECK_DEADLOCK FALSE
INVARIANTS TypeOK FoundByName AnswersTheBest NoHitIsDominated AnswersNest
