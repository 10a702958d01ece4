CONSTANTS
  t1 = t1
  t2 = t2
  c1 = c1
  c2 = c2
  NoThread = NoThread
  NoCategory = NoCategory
  Threads = {t1, t2}
  Categories = {c1}
  Ops = {"zlog_init", "zlog_reload", "zlog_get_category", "zlog"}
  ReloadPeriod = 1
  MaxVersion = 2
  MaxConfs = 2
  AllocFails = FALSE
  Signals = FALSE
  BufMin = 4
  BufMaxes = {0, 8}
  PathMax = 6
  TruncateStr <- MCTruncateStr
  Formats <- MCFormats
  UserMessages <- MCUserMessages
  MemSizes = {6, 100}
  HexPerLine = 2
  TimeCaches = 2
  MaxTexts = 2
  LastTick = 2
  LastPid = 2
SPECIFICATION MCSpec
CHECK_DEADLOCK FALSE
INVARIANTS
  MessageExact
  BuffersWellFormed
  
PROPERTY ReloadReturns
