SPECIFICATION FairSpec
CONSTANTS
  Thread = {t1, t2, t3}
  Handle = {h1, h2, h3}
  Screens = {1, 2}
  NoThread = NoThread
  NoHandle = NoHandle
  Ram = Ram
  Gone = Gone
INVARIANT TypeOK
INVARIANT SlotsExclusive
INVARIANT MaskIsHandles
INVARIANT MutualExclusion
PROPERTY LockReleased
