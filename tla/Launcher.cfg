SPECIFICATION Spec
CONSTANTS
  CommandLine <- MCCommandLine
  Dashed = {"-Xzygote", "-Xmx", "-dir"}
  Setting <- MCSetting
  Text <- MCText
  Known <- MCKnown
  Natives = 2
  Thread = {t1, t2}
CHECK_DEADLOCK FALSE
INVARIANT TypeOK
INVARIANT ArgumentsRead
INVARIANT OptionsOverridden
INVARIANT ExtraOptionsRead
INVARIANT HooksAlone
INVARIANT LocaleOfOneOrigin
INVARIANT JavaIsReady
INVARIANT PoolStopped
