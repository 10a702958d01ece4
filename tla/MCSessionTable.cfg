CONSTANTS
  p1 = p1
  p2 = p2
  Peers = {p1, p2}
  NoPeer = NoPeer
  MaxDatagrams = 2
  MaxEndpoints = 2
  ReceiveErrors = TRUE
  Transports = {1, 2}
  Addresses = {1, 2}
  Ports = {1, 2}
SPECIFICATION MCSpec
SYMMETRY Symmetry
CHECK_DEADLOCK FALSE
INVARIANTS
  ForwardInv
  SingleWriter
  BufferValid
  ForwardFIFO
  NoWedge
  ReaderAlive
  SearchesAgree
PROPERTY NeverReplaced
