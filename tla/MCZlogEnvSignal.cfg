CONSTANTS
  t1 = t1
  t2 = t2
  c1 = c1
  c2 = c2
  NoThread = NoThread
  NoCategory = NoCategory
  Threads = {t1, t2}
  Categories = {c1}
  Ops = {"zlog_init", "zlog_get_category", "zlog"}
  ReloadPeriod = 0
  MaxVersion = 2
  MaxConfs = 2
  AllocFails = FALSE
  Signals = TRUE
SPECIFICATION FairSpec
CHECK_DEADLOCK FALSE
PROPERTY ReloadReturns
