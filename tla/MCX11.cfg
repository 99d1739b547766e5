CONSTANTS
  Windows = {w1, overlay}
  Overlay = overlay
  Root = root
  Retries = 2
  MaxTaken = 1
  MaxRefused = 1
  PrefsValues <- MCPrefs
  MaxNotify = 1
SPECIFICATION SessionFairSpec
INVARIANTS
  RecordTrue
  GrabFollowsSaver
PROPERTIES
  MoveDelivers
  CallsReturn
  IdleActivates
