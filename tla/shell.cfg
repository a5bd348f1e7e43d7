\* Three tasks besides init, two of them shells at most.
SPECIFICATION FairSpec
CONSTANTS
  Archive <- MCArchive
  Lines <- MCLines
  Programs <- MCPrograms
  Endless <- MCEndless
  NoFile = NoFile
  MAX_TASKS = 3
  MAX_SHELLS = 2
INVARIANTS TypeOK CwdIsDirectory SearchIsStable ForegroundIsAwaited ShowsWhatWasAsked
PROPERTIES PromptComesBack

CHECK_DEADLOCK FALSE
