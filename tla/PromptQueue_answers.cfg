SPECIFICATION FairSpec
CONSTANTS
  MaxReq = 4
  MaxInt = 2
  MaxSession = 2
  Texts = {0}
  Crossing = TRUE
  PagerOps = {"prompt", "send_now", "vibe", "vibe_rest", "interject", "compact", "plan", "remove", "reorder", "clear", "edit", "promote", "new", "load"}
PROPERTIES
  DispatchedIsAnswered
CHECK_DEADLOCK FALSE
