SPECIFICATION Spec
CONSTANTS
  Ctl = {c1, c2}
  Pid = {p1, p2}
  NoPid = NoPid
  NoTracker = NoTracker
  Service = {"adbd", "servicemanager"}
  Modes = {"adbd", "restart", "stop"}
  MaxApps = 0
SYMMETRY Symmetry
PROPERTY LifecycleKept
