SPECIFICATION Spec
CONSTANTS
  Sources <- FilesOfFour
  Replacements <- NewerFiles
  Word = 16
CHECK_DEADLOCK FALSE
INVARIANTS TypeOK NodesAreWhereLastSeen PlacesAreThoseOfTheFile
