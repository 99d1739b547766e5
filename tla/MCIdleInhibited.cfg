CONSTANTS
  Monitors = {m1}
  PrefsValues <- MCPrefs
  MaxQueue = 1
  MaxRebuilds = 1
CHECK_DEADLOCK FALSE
SPECIFICATION FairSpec
PROPERTIES
  IdleActivatesUninhibited
