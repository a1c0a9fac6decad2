SPECIFICATION FairSpec
CONSTANTS
  Ctl = {c1}
  Pid = {p1, p2}
  NoPid = NoPid
  NoTracker = NoTracker
  Service = {"servicemanager", "zygote"}
  Modes = {"am", "start", "gui"}
  MaxApps = 0
PROPERTY DeathStopsServices
PROPERTY CriticalExitQuits
PROPERTY StoppedIsNoticed
CHECK_DEADLOCK FALSE
