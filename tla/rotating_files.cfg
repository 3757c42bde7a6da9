CONSTANTS
  app = app
  debug = debug
  g1 = g1
  g2 = g2
  NoGoroutine = NoGoroutine
  Writers = {app}
  Goroutines = {g1, g2}
  Covers <- MCCovers
  Minute = 1
  Rotation = 2
  MaxAge <- MCMaxAge
  MaxSize = 3
  Lengths = {2}
  Faults = {"open", "stat", "link", "write", "list"}
  MaxTime = 3
  MaxWrites = 3
  MaxCrashes = 1
SPECIFICATION FairSpec
INVARIANTS
  RotatingTypeOK
  FilesByPeriod
  OversizeByOneRecord
  DescriptorsBalanced
  SizeCounted
  StaleLinkExplained
PROPERTIES
  NothingAfterClose
  CleanerEnds
CHECK_DEADLOCK FALSE
