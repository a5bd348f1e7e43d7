\* Every argument within the bounds, and three calls of malloc.
SPECIFICATION Spec
CONSTANTS
  INT_LIMIT = 128
  STACK_DIGITS = 3
  MAX_BUFFER = 4
  ADDRESSES = 64
  PAGE_SIZE = 4
  HEAP_BASE = 8
  BRK_LIMIT = 10
  BLOCK = 4
  STACK_PAGE = 56
  WORD = 4
  STACK_BASE = 100
  MAX_ARGUMENT = 3
  SIZES = {0, 1, 4, 5, 9, 10, 60}
  MAX_LEN = 4
  MAX_CALLS = 3
INVARIANTS StringsAgree LinesAreCut NumbersAndFields ArgumentsArrive
           FilesAreRead BlocksAreDisjoint
