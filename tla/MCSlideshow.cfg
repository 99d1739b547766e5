CONSTANTS
  Files <- MCFiles
  Thumbnails <- MCThumbnails
  Transparent <- MCTransparent
  N_FADE_TICKS = 3
  MaxChanges = 2
  MaxResizes = 2
CHECK_DEADLOCK FALSE
SPECIFICATION FairSpec
INVARIANTS
  LoadsFollow
  FadeEndsClean
PROPERTIES
  ImplementsPictureShow
  PicturesShown
