SPECIFICATION Spec
CONSTANTS
  Ctl = {c1}
  Pid = {p1, p2, p3}
  NoPid = NoPid
  NoTracker = NoTracker
  Service = {"servicemanager", "zygote"}
  Modes = {"restart", "start"}
  MaxApps = 2
PROPERTY RestartReplaces
CHECK_DEADLOCK FALSE
