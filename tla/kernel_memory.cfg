\* A table of 32 entries; one fork succeeds, a second spends the pool of page
\* tables.  Besides what init uses, six page frames are left: init can enlarge
\* its heap, execute a program, which shrinks the heap, and fork.
SPECIFICATION Spec
CONSTANTS
  TABLE_SIZE = 32
  KERNPT_NUMBER = 16
  PROCESS_NUMBER = 4
  KMALLOC_BASE = 1
  KERNEL_PAGES = 160
  PAGE_NUM = 172
INVARIANTS TypeOK PoolsMatchTasks TablesAreTrees SelfReferenceReachesTable
           KernelIsMapped HaltsOnlyWhenSpent
PROPERTIES HasFlatTables
CHECK_DEADLOCK FALSE
