CONSTANTS
  ui = ui
  clip = clip
  Arch = "x86_64"
  Entries = {ui, clip}
  MaxFibers = 3
SPECIFICATION Spec
INVARIANTS
  EntryRunsOwnTask
  NoCrash
PROPERTIES
  EveryFiberRuns
CHECK_DEADLOCK FALSE
