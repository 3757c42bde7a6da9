CONSTANTS
  p1 = p1
  p2 = p2
  p3 = p3
  h1 = h1
  h2 = h2
  NoProc = NoProc
  MaxAsync = 2
  Procs = {p1}
  Parent <- TwoRoots
  Entries = {e1, e2, e3, e4, e5, e6}
  NoEntry = NoEntry
  Buffers = {b1, b2}
  NoBuffer = NoBuffer
  Pools = {q1}
  DefaultPool = q1
  Hooks = {h1}
  HookLevels <- MCHookLevels
  ModifyHooks = {}
  RetainHooks = {}
  InitHooks <- MaybeHook
  Outs = {o1}
  DefaultOut = o1
  LogLevels = {1, 4}
  SetLevels = {0, 4}
  Kinds = {"logger", "print", "warnf", "entry", "with"}
  ConfigOps = {"level"}
  Outcomes = {"ok"}
  LineFeeds = {FALSE}
  NoLockMode = "never"
  MaxCalls = 2
  MaxWith = 1
  MaxConfig = 2
SPECIFICATION Spec
PROPERTIES
  LevelsHonoured
  HooksHonoured
CHECK_DEADLOCK FALSE
