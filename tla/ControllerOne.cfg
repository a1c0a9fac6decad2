SPECIFICATION Spec
CONSTANTS
  Ctl = {c1}
  Pid = {p1, p2, p3}
  NoPid = NoPid
  NoTracker = NoTracker
  Service = {"servicemanager", "surfaceflinger", "zygote"}
  Modes = {"apk", "start", "stop", "gui"}
  MaxApps = 1
SYMMETRY Symmetry
INVARIANT TypeOK
INVARIANT OwnServicesTracked
INVARIANT SingleInstance
INVARIANT Covered
PROPERTY StopReachesServices
PROPERTY StartOrderKept
