CONSTANTS
  t1 = t1
  t2 = t2
  c1 = c1
  c2 = c2
  NoThread = NoThread
  NoCategory = NoCategory
  Threads = {t1, t2}
  Categories = {c1, c2}
  Ops = {"zlog_init", "zlog_reload", "zlog_get_category", "zlog"}
  ReloadPeriod = 0
  MaxVersion = 2
  MaxConfs = 2
  AllocFails = TRUE
  Signals = FALSE
SPECIFICATION Spec
CHECK_DEADLOCK FALSE
INVARIANT CategoriesFollowConf
