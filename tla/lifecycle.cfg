\* Every call but yield, background jobs and kills included: what holds
\* whatever programs do.
SPECIFICATION Spec
CONSTANTS
  PROCESS_NUMBER = 5
  FORK_LIMIT = 3
  BOOT_TICKS = 1
  SLICE = 1
  IRQ0_period = 5
  SECOND = 10
  UINT32 = 64
  UINT64 = 128
  SleepArgs = {1}
  Calls = {"fork", "exit", "waitpid", "kill", "ps", "sleep", "read"}
  Background = TRUE
  NULL = NULL
INVARIANTS TypeOK RunQueueSound OnlyCurrentRuns LastExitedEnded
PROPERTIES TerminatedIsFinal
CHECK_DEADLOCK FALSE
