CONSTANTS
  Monitors = {m1}
  PrefsValues <- MCLater
  MaxDeferred = 2
  Hotplug = TRUE
  SpawnMayFail = FALSE
  GrabMayFail = FALSE
  Dismissal = FALSE
SPECIFICATION FairSpec
PROPERTIES
  DialogComesDown
  GrantTakesEffect
  LockEngages
  ImplementsScreenLock
  ImplementsChildren
