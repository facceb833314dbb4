SPECIFICATION Spec
CONSTANTS
  Names = {"", "A"}
  Absent = "absent"
  Empty = ""
  Places <- SomePlaces
  MaxPlaces = 2
  Word = 2048
  RottenCount <- EveryCount
CHECK_DEADLOCK FALSE
INVARIANTS TypeOK GivesBackWhatWasPushed OpenedColumnsAreCovered OwnStringsOrNone
