CONSTANTS
  g1 = g1
  g2 = g2
  commonLog = commonLog
  debugLog = debugLog
  NoGoroutine = NoGoroutine
  Writers = {commonLog, debugLog}
  Goroutines = {g1}
  Covers <- MCCovers
  Minute = 1
  Rotation = 1
  MaxAge <- MCMaxAge
  MaxSize = 0
  Lengths = {1}
  Faults = {"open"}
  MaxTime = 3
  MaxWrites = 2
  MaxCrashes = 0
  Order <- MCOrder
  Levels = {"debug", "trace"}
  WriterMap <- MCWriterMap
  Fallbacks = {commonLog}
  Ages = {4}
  DefaultAge = 2
  FormatFails = FALSE
  MaxFires = 1
  MaxEvents = 1
SPECIFICATION LfsSpec
PROPERTIES
  CleanupHonoursMaxAge
CHECK_DEADLOCK FALSE
