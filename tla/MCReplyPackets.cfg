CONSTANTS
  Kinds = {"peer", "none", "bad"}
  MaxReplies = 3
  SendErrors = TRUE
  Width = 16
  MAX_PAYLOAD_SIZE = 12
  PeerData = 6
  AdrSizes = {1, 3}
  DatagramSizes <- MCDatagramSizes
  FieldValues <- MCFieldValues
  MaxMessages = 2
SPECIFICATION MCSpec
CHECK_DEADLOCK FALSE
INVARIANTS
  RepliesInOrder
  SerialRepliesExact
  StallHasCause
  NotDroppedUnlessSkipped
  FramesExact
  StorageBound
  ReplyWhole
PROPERTY QueueDrains
