CONSTANTS
  BaseOffset = 64
  TotalSize = 576
  Clients <- MCClients
  Requests = {1, 100}
  SizeWidth = 16
  c1 = c1
  c2 = c2
  c3 = c3
SYMMETRY MCSymmetry
SPECIFICATION Spec
INVARIANTS
  TypeOK
  HeapWellFormed
  FreeListMatchesHeap
  NoAdjacentFree
PROPERTIES
  OOMOnlyWhenNoFit
  AllocationFitsRequest
