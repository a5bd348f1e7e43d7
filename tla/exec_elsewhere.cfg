\* A process calls execve after another has been forked.
SPECIFICATION Spec
CONSTANTS
  NPROC = 3
  Pages = {"code", "data", "heap", "stack"}
  NFRAMES = 6
  MAX_EXECS = 2
  ExecFirst = FALSE
  StoreFirst = TRUE
INVARIANTS ProgramIsLoaded
