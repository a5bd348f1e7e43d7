\* Three processes that share pages after fork; each calls execve, if at all,
\* while it is the one forked last.
SPECIFICATION Spec
CONSTANTS
  NPROC = 3
  Pages = {"code", "heap", "stack"}
  NFRAMES = 4
  MAX_EXECS = 1
  ExecFirst = TRUE
  StoreFirst = TRUE
INVARIANTS TypeOK RefCountCovers SharedIsReadOnly LegalStoreSucceeds
PROPERTIES HasPrivateMemory
