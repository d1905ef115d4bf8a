SPECIFICATION Spec
CONSTANTS
  MaxReq = 5
  MaxInt = 2
  MaxSession = 2
  Texts = {0, 1}
  Crossing = FALSE
  PagerOps = {"prompt", "send_now", "vibe", "interject", "compact", "plan", "remove", "reorder", "clear", "edit", "promote", "new", "load"}
INVARIANTS
  TypeOK
  NoRequestLost
  RunningIsLive
  PaneFresh
  SentAsShown
  NeverOverrun
PROPERTIES
  TurnSlotKept
CHECK_DEADLOCK FALSE
