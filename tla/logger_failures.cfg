CONSTANTS
  p1 = p1
  p2 = p2
  p3 = p3
  h1 = h1
  h2 = h2
  NoProc = NoProc
  MaxAsync = 2
  Procs = {p1, p2}
  Parent <- TwoRoots
  Entries = {e1, e2, e3, e4, e5, e6}
  NoEntry = NoEntry
  Buffers = {b1, b2}
  NoBuffer = NoBuffer
  Pools = {q1}
  DefaultPool = q1
  Hooks = {h1, h2}
  HookLevels <- MCHookLevels
  ModifyHooks = {h1}
  RetainHooks = {h2}
  InitHooks <- MaybeTwoHooks
  Outs = {o1}
  DefaultOut = o1
  LogLevels = {0, 1, 4}
  SetLevels = {4}
  Kinds = {"logger"}
  ConfigOps = {}
  Outcomes = {"ok", "err", "panic"}
  LineFeeds = {FALSE}
  NoLockMode = "never"
  MaxCalls = 2
  MaxWith = 0
  MaxConfig = 0
SPECIFICATION Spec
INVARIANTS
  BufferOwnership
  EntryOwnership
  LockHeldOnlyInside
PROPERTIES
  ImplementsDelivery
CHECK_DEADLOCK FALSE
