CONSTANTS
  Kinds = {"peer"}
  MaxReplies = 2
  SendErrors = FALSE
SPECIFICATION Spec
CHECK_DEADLOCK FALSE
INVARIANT NoDuplicateReply
