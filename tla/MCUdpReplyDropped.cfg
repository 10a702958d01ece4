CONSTANTS
  Kinds = {"peer", "none"}
  MaxReplies = 3
  SendErrors = FALSE
SPECIFICATION Spec
CHECK_DEADLOCK FALSE
INVARIANT NotDropped
