\* Programs wait for each child before the next fork, nobody reads the
\* terminal and nothing is killed; with the kernel's fairness.
SPECIFICATION FairSpec
CONSTANTS
  PROCESS_NUMBER = 5
  FORK_LIMIT = 3
  BOOT_TICKS = 2
  SLICE = 2
  IRQ0_period = 5
  SECOND = 10
  UINT32 = 64
  UINT64 = 128
  SleepArgs = {1}
  Calls = {"fork", "exit", "waitpid", "ps", "sleep", "yield"}
  Background = FALSE
  NULL = NULL
INVARIANTS NoTaskLost
PROPERTIES ReapedHadExited WaiterReturns ReadyRuns SleepersWake
CHECK_DEADLOCK FALSE
