CONSTANTS
  p1 = p1
  p2 = p2
  Peers = {p1}
  NoPeer = NoPeer
  MaxDatagrams = 2
  MaxEndpoints = 1
  ReceiveErrors = FALSE
SPECIFICATION Spec
CHECK_DEADLOCK FALSE
PROPERTY LeavesByOwnFailure
