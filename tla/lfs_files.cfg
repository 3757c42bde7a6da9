CONSTANTS
  g1 = g1
  g2 = g2
  commonLog = commonLog
  debugLog = debugLog
  NoGoroutine = NoGoroutine
  Writers = {commonLog, debugLog}
  Goroutines = {g1, g2}
  Covers <- MCCovers
  Minute = 1
  Rotation = 1
  MaxAge <- MCMaxAge
  MaxSize = 0
  Lengths = {1}
  Faults = {"open"}
  MaxTime = 3
  MaxWrites = 4
  MaxCrashes = 1
  Order <- MCOrder
  Levels = {"debug", "trace"}
  WriterMap <- MCWriterMap
  Fallbacks = {commonLog}
  Ages = {4}
  DefaultAge = 2
  FormatFails = FALSE
  MaxFires = 2
  MaxEvents = 1
SPECIFICATION LfsSpec
INVARIANTS
  LfsTypeOK
  AcceptedWritesKept
  NilMeansEverywhere
  SameOrder
SYMMETRY GoroutineSymmetry
CHECK_DEADLOCK FALSE
