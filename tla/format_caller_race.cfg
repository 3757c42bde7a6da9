CONSTANTS
  g1 = g1
  g2 = g2
  Goroutines = {g1}
  Names <- MCNames
  FieldSets <- MCFieldSets
  Formats <- DefaultFormats
  MaxWith = 1
  MaxLines = 1
  MaxToggles = 2
SPECIFICATION Spec
INVARIANT FieldsNeverOverwritten
CHECK_DEADLOCK FALSE
