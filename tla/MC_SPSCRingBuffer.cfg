CONSTANTS
  Capacity = 4
  Values <- MCValues
  NoValue = NoValue
  t1 = t1
  t2 = t2
SPECIFICATION Spec
INVARIANTS
  TypeOK
  NoDataRace
PROPERTIES
  QueueRefinement
  FrontEventuallyPopped
