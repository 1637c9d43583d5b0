INIT FetchInit
NEXT FetchNext
CONSTANTS
  Pages = {0, 1}
  Frames = {0, 1, 2, 3}
  Map <- Scattered
  MaxStores = 2
INVARIANT FetchIsTranslated
CHECK_DEADLOCK FALSE
