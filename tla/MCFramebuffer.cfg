SPECIFICATION Spec
CONSTANTS
  FB_COLS = 3
  FB_ROWS = 2
  BYTE = 4
  Strings <- MCStrings
  NewLine = 10
  Space = 32
  Garbage <- MCGarbage
  MaxText = 9
INVARIANTS
  ScreenShowsText
  CursorAfterText
