\* A system call writes to a page that the process shares since a fork.
SPECIFICATION Spec
CONSTANTS
  NPROC = 2
  Pages = {"code", "stack"}
  NFRAMES = 3
  MAX_EXECS = 1
  ExecFirst = TRUE
  StoreFirst = FALSE
PROPERTIES HasPrivateMemory
