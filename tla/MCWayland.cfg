CONSTANTS
  Monitors = {m1, m2}
  PrefsValues <- MCPrefs
  MaxQueue = 2
  MaxRebuilds = 2
CHECK_DEADLOCK FALSE
SPECIFICATION FairSpec
INVARIANTS
  NoInvalidUnlock
  NobodyLockedOut
  AlarmsFit
PROPERTIES
  IdleActivates
