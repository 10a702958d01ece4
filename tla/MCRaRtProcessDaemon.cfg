CONSTANTS
  RuleLists <- ShippedRules
  CfgFiles <- MCCfgFiles
  ProcFds = 13
  MaxSignals = 2
  MaxSessions = 2
SPECIFICATION ProcessSpec
CHECK_DEADLOCK FALSE
INVARIANT NoRecordOnTheWire
