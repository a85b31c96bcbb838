SPECIFICATION FairSpec
CONSTANTS
  Watchers = {w1, w2}
  Room = 1
  Nobody = Nobody
PROPERTIES
  SlowWatcherHurtsNobody
CHECK_DEADLOCK FALSE
