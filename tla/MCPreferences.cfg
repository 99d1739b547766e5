CONSTANTS
  ThemeList <- MCThemeList
  Switches <- MCSwitches
  Delays <- MCDelays
  MaxDelay = 2
  UsedDelay = 1
  MaxOthers = 1
SPECIFICATION Spec
INVARIANTS
  SettingsAgree
  ChoiceSticks
