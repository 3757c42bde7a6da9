CONSTANTS
  g1 = g1
  g2 = g2
  Goroutines = {g1, g2}
  Names <- MCNames
  FieldSets <- MCFieldSets
  Formats <- MCFormats
  MaxWith = 2
  MaxLines = 2
  MaxToggles = 1
SPECIFICATION Spec
INVARIANTS
  FormattersTypeOK
  FieldsSurvive
  DefaultKeysTrue
  RefusalsNamed
  SortedAsPrinted
CHECK_DEADLOCK FALSE
SYMMETRY Symmetry
