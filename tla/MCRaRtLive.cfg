CONSTANTS
  p1 = p1
  p2 = p2
  Peers = {p1}
  NoPeer = NoPeer
  MaxDatagrams = 2
  MaxEndpoints = 1
  ReceiveErrors = TRUE
  RuleLists <- MCRuleLists
  CfgFiles <- MCCfgFiles
  ProcFds = 13
  MaxSignals = 2
  MaxSessions = 2
SPECIFICATION MCSpec
CHECK_DEADLOCK FALSE
INVARIANTS
  DescriptorsOwned
  OneServer
  StopRecorded
PROPERTIES
  EveryPacketDecided
  FailedSessionLeaves
  StopEnds
