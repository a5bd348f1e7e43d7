\* Keys at any time; the buffer and the screen are small enough to overflow.
SPECIFICATION FairSpec
CONSTANTS
  MAX_BUFF = 2
  VGA_WIDTH = 2
  VGA_HEIGHT = 3
  SIZE_MAX_1 = 64
  MAX_KEYS = 3
  MAX_WRITES = 1
INVARIANTS TypeOK InOrder TypedIsKept LinesArrive ScreenIsKept
PROPERTIES EnterEndsRead
