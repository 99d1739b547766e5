CONSTANTS
  Monitors = {m1, m2}
  PrefsValues <- MCPrefs
  MaxDeferred = 2
  Hotplug = TRUE
  SpawnMayFail = FALSE
  GrabMayFail = TRUE
  Dismissal = TRUE
SPECIFICATION Spec
SYMMETRY Symmetry
INVARIANTS
  DialogAgreement
  LockCopiesAgree
  OnlyDialogListens
  ThemesQuiet
  InactiveIsClean
  DialogUnderWay
