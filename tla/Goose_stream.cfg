\* Late timers and refused writes; rolled-over counters and a restart.
CONSTANTS
  t1 = t1  t2 = t2  NoThread = NoThread
  Thread = {t1, t2}  StMax = 3  SqMax = 2  Configs <- MCConfigs
SPECIFICATION FairSpec
INVARIANTS WireIsCurrent GapIffLost
PROPERTIES NoFalseExpiry SilenceNoticed
CHECK_DEADLOCK FALSE
