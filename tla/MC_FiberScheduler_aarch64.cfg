CONSTANTS
  ui = ui
  clip = clip
  Arch = "aarch64"
  Entries = {ui, clip}
  MaxFibers = 3
SPECIFICATION Spec
INVARIANTS
  EntryRunsOwnTask
  NoCrash
  EntryStackAligned
CHECK_DEADLOCK FALSE
