\* A background job ends while the shell waits for another.
SPECIFICATION Spec
CONSTANTS
  PROCESS_NUMBER = 5
  FORK_LIMIT = 3
  BOOT_TICKS = 2
  SLICE = 2
  IRQ0_period = 5
  SECOND = 10
  UINT32 = 64
  UINT64 = 128
  SleepArgs = {1}
  Calls = {"fork", "exit", "waitpid"}
  Background = TRUE
  NULL = NULL
PROPERTIES ReapedHadExited
CHECK_DEADLOCK FALSE
