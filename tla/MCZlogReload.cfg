CONSTANTS
  t1 = t1
  t2 = t2
  c1 = c1
  c2 = c2
  NoThread = NoThread
  NoCategory = NoCategory
  Threads = {t1, t2}
  Categories = {c1, c2}
  Ops = {"zlog_init", "dzlog_init", "zlog_reload", "zlog_fini", "zlog_get_category",
         "dzlog_set_category", "zlog_set_record", "zlog", "dzlog"}
  ReloadPeriod = 1
  MaxVersion = 2
  MaxConfs = 2
  AllocFails = FALSE
  Signals = FALSE
  Lines <- MCLines
  MaxLines = 6
  CategoryNames <- MCCategoryNames
  EventLevels = {0, 19, 20, 21, 79, 80, 81, 254, 255}
  MaxFd = 6
SPECIFICATION MCSpec
SYMMETRY Symmetry
INVARIANTS
  CategoriesFollowConf
  RecordsSurviveReload
  NeedlessExact
  CategoryRules
  DescriptorsReleased
  SlotsInPlace
PROPERTIES
  
  QuietTestExact
