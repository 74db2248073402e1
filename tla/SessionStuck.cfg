CONSTANTS
  Levels = 2
  ReqCap = 1
  NotifCap = 1
SPECIFICATION Spec
CHECK_DEADLOCK FALSE
PROPERTY MainIsWoken
