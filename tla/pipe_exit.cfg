CONSTANTS
  scanner = scanner
  main = main
  NoProducer = NoProducer
  Threads = {scanner, main}
  Producers = {scanner, main}
  Scanner = scanner
  Handlers = {h1, h2}
  ExitFuncs = {"exits", "returns"}
  MaxDepth = 2
  MaxCalls = 4
  MaxHandlers = 2
  Chunks <- MCChunks
  Limit = 2
  EmptyReads = 0
  MaxChunks = 2
  Levels = {"info", "fatal", "panic"}
SPECIFICATION PipeExitSpec
INVARIANTS
  PipeExitTypeOK
  ExitRunsHandlers
  LinesFaithful
  RefusalsExplained
PROPERTIES
  WritersReturn
  ExitsEnd
CHECK_DEADLOCK FALSE
