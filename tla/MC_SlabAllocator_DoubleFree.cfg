CONSTANTS
  BaseOffset = 64
  TotalSize = 512
  Clients <- MCClients
  Requests = {1}
  SizeWidth = 16
  c1 = c1
  c2 = c2
  c3 = c3
SYMMETRY MCSymmetry
SPECIFICATION Spec
INVARIANTS
  NoSharedBlock
