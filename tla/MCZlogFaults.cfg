CONSTANTS
  t1 = t1
  t2 = t2
  c1 = c1
  c2 = c2
  NoThread = NoThread
  NoCategory = NoCategory
  Threads = {t1, t2}
  Categories = {c1}
  Ops = {"zlog_init", "dzlog_init", "zlog_reload", "zlog_get_category", "dzlog_set_category",
         "zlog", "vdzlog", "dzlog", "mdc"}
  ReloadPeriod = 1
  MaxVersion = 2
  MaxConfs = 2
  AllocFails = TRUE
  Signals = TRUE
  Keys = {1, 2, 3}
  Values = {"v", "w"}
  NoValue = "none"
  Hash <- MCHash
  TabSize = 1
  MdcAllocFails = TRUE
  StaticWriters = {1, 3}
  DynamicWriters = {2}
  Procs = {1, 2}
  ProcOf <- MCProcOf
  Nobody = 0
  MsgLens = {2, 3}
  ArchiveMaxSize = 2
  ArchiveMaxCounts = {0, 2}
  MaxWrites = 4
  MaxFaults = 1
SPECIFICATION MCSpec
SYMMETRY Symmetry
CHECK_DEADLOCK FALSE
INVARIANTS
  
  TableSound
  
  
  
 
