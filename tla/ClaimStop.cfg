SPECIFICATION Spec
CONSTANTS
  Ctl = {c1}
  Pid = {p1, p2, p3}
  NoPid = NoPid
  NoTracker = NoTracker
  Service = {"zygote"}
  Modes = {"apk", "stop"}
  MaxApps = 2
PROPERTY StopStopsZygote
CHECK_DEADLOCK FALSE
