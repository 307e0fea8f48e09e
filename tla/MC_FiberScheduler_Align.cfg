CONSTANTS
  ui = ui
  clip = clip
  Arch = "x86_64"
  Entries = {ui, clip}
  MaxFibers = 3
SPECIFICATION Spec
INVARIANT EntryStackAligned
CHECK_DEADLOCK FALSE
