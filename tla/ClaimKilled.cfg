SPECIFICATION Spec
CONSTANTS
  Ctl = {c1}
  Pid = {p1, p2, p3}
  NoPid = NoPid
  NoTracker = NoTracker
  Service = {"zygote"}
  Modes = {"gui"}
  MaxApps = 2
PROPERTY EverythingKilled
CHECK_DEADLOCK FALSE
